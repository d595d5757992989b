---------------------------- MODULE BotProcessMC ----------------------------
(* Days for TLC: each allows the actors that it is about.                  *)
EXTENDS BotProcess

CONSTANTS u1, u2, n1, n2, dm, group, hello

Update(kind, user, name, chat) == [kind |-> kind, user |-> user, name |-> name, chat |-> chat]
Text(key, chat) == Update("text", u1, NoName, chat) @@ [key |-> key]
Url1 == Update("url", u1, NoName, dm)
Cmd(cmd, arg, user, name, chat) ==
  Update("command", user, name, chat) @@ [command |-> cmd, argument |-> arg]
Bare1(chat, member) == Update("bare", u1, NoName, chat) @@ [member |-> member]
Press(data) == Update("callback", u1, n1, dm) @@ [pressData |-> data]

Quiet == [tools |-> {}, fails |-> 0, lines |-> 0, ticks |-> 0, signal |-> FALSE]

\* Three reads of the whitelist while it changes.
UrlDay == [inbox |-> <<Url1, Url1, Url1>>, budget |-> [Quiet EXCEPT !.tools = {Whitelist}]]

\* Texts without a match while responses are being added.
TextDays ==
  {[inbox |-> <<Text(k, c)>>,
    budget |-> [Quiet EXCEPT !.tools = {hello, Default}, !.fails = 1]] :
     k \in {hello, Default, NoKey}, c \in {dm, group}}

\* A text that is answered twice, from a response that is corrected.
AskTwiceDay ==
  [inbox |-> <<Text(hello, dm), Text(hello, dm)>>, budget |-> [Quiet EXCEPT !.tools = {hello}]]

\* A user with two names, in two chats, until the process is stopped.
UserDay ==
  [inbox |-> <<Cmd("help", "none", u1, n1, dm), Cmd("help", "none", u1, n2, group),
               Cmd("help", "none", u1, NoName, dm)>>,
   budget |-> [Quiet EXCEPT !.fails = 1, !.signal = TRUE]]

\* A search queues a fan-out between two upserts.
SearchDay ==
  [inbox |-> <<Cmd("start", "strain", u1, n1, dm), Update("inline", u1, n2, dm),
               Cmd("subscribe", "none", u2, n1, group)>>,
   budget |-> [Quiet EXCEPT !.fails = 1, !.signal = TRUE]]

\* One update of every kind, with a failure and a signal.
OtherUpdates ==
  {Cmd("start", a, u1, n1, c) : a \in {"strain", "dashes", "none"}, c \in {dm, group}}
  \cup {Cmd("subscribe", "none", u1, n1, dm), Cmd("help", "none", Nobody, n1, dm)}
  \cup {Bare1(c, m) : c \in {dm, group}, m \in BOOLEAN}
  \cup {Press(d) : d \in BOOLEAN}
  \cup {Update("inline", u2, n1, dm), Update("chat_member", u1, NoName, group), Text(hello, group)}

OtherDays == {[inbox |-> <<u>>, budget |-> [Quiet EXCEPT !.fails = 1, !.signal = TRUE]] : u \in OtherUpdates}

LogDay == [inbox |-> <<>>, budget |-> [Quiet EXCEPT !.lines = 3, !.signal = TRUE]]

\* The scheduler's statements and events between a read of the whitelist and its use, up to
\* the end.
TickDay ==
  [inbox |-> <<Url1>>, budget |-> [Quiet EXCEPT !.tools = {Whitelist}, !.ticks = 1, !.signal = TRUE]]

MCDays == {TickDay, UrlDay, AskTwiceDay, UserDay, SearchDay, LogDay} \cup TextDays \cup OtherDays

MCUpdates == UNION {{d.inbox[i] : i \in DOMAIN d.inbox} : d \in MCDays}
=============================================================================
