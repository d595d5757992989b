------------------------------ MODULE Handlers ------------------------------
(***************************************************************************)
(* Which handler gets an update, and what the handler then does to the     *)
(* state that goroutines share, in order: routes/root.go, the controllers  *)
(* and the use cases behind them.  The answers of Telegram, of the strain  *)
(* index, of Gemini and of web servers are not state of the bot: an update *)
(* turns into any of the plans that some answers lead to.  Statements that *)
(* neither read through the cache nor clear it appear as the outcomes they *)
(* may have; presses are taken apart in StrainPress, fan-outs in           *)
(* StrainBroadcast.                                                        *)
(***************************************************************************)
EXTENDS Naturals, Sequences

CONSTANTS
  Groups,     \* chats with a negative id
  Whitelist,  \* the query for the whitelisted domains
  Default,    \* the query for the response of key "default"
  NoKey,      \* what normalizeKey leaves of a text without a letter or digit
  Nobody,     \* the sender of an update without a user id
  MaxItems    \* bound: strains a web page yields, subscribers told of a find

\* Steps: EnsureUser, TrackEvent, a closure for the queue, a statement that clears the cache,
\* and a read that may be answered from it.
Ensure == <<[step |-> "ensure"]>>
Event == <<[step |-> "event"]>>
FanOut == <<[step |-> "fanout"]>>
Exec == <<[step |-> "exec"]>>
Get(k) == <<[step |-> "read", key |-> k]>>

\* A plan: the steps, and the reply if no read decides otherwise.
Plan(steps, reply) == [todo |-> steps, reply |-> reply]
Before(steps, plans) == {Plan(steps \o p.todo, p.reply) : p \in plans}

Silence == {Plan(<<>>, "none")}
Failure == {Plan(<<>>, "error")}

\* Up to MaxItems events.
EventRuns == {[i \in 1 .. n |-> [step |-> "event"]] : n \in 0 .. MaxItems}

InGroup(u) == u.chat \in Groups

\* middleware: a sender without an id is turned away, with an event.
Ensured(u, plans) ==
  IF u.user = Nobody THEN Before(Event, Failure) ELSE Before(Ensure, plans)

-----------------------------------------------------------------------------
(* Searches                                                                *)

\* handle-unknown: the response for the text, then the one for "default".
Unknown(u) ==
  {Plan((IF u.key = NoKey THEN <<>> ELSE Get(u.key)) \o Get(Default) \o Event, "unknown")}

\* handleStrainLookup; nothing: the plans of a search without a match.
Lookup(u, nothing) ==
  LET unavailable == {Plan(<<>>, "sorry")}
      found == {Plan(FanOut \o Event, "card")}
      severalInGroup == IF InGroup(u) THEN {Plan(FanOut \o Event, "list")} ELSE {}
      unresolved == {Plan(<<>>, "list")}
  IN  unavailable \cup found \cup severalInGroup \cup unresolved \cup Before(Event, nothing)

NoMatch == {Plan(<<>>, "no match")}

\* A /start link whose argument is nothing but dashes.
EmptyQuery(u) == IF InGroup(u) THEN Silence ELSE {Plan(<<>>, "please provide")}

-----------------------------------------------------------------------------
(* URLs                                                                    *)

\* A name is in the index, is not, or is skipped after an error.
Checked == {Plan(<<>>, "no candidates")} \cup {Plan(e \o Event, "strains") : e \in EventRuns}

\* extractWithGemini tracks the length of the body, and that it was cut; it finds names,
\* none, or fails.
Extracted == Before(Event, Checked \cup Failure) \cup Before(Event \o Event, Checked \cup Failure)

\* The read of the whitelist decides between what follows and a refusal.
Url(u) == Before(Get(Whitelist), Failure \cup {Plan(<<>>, "unreadable")} \cup Extracted)

-----------------------------------------------------------------------------
(* Commands                                                                *)

Policy == Before(Event, {Plan(<<>>, "policy")} \cup Failure)

\* Its read goes past the cache; its write clears it.
Subscribe == {Plan(Exec \o Event, "subscription")} \cup Failure

Command(u) ==
  Before(Event,
    CASE u.command = "start" /\ u.argument = "strain" -> Lookup(u, NoMatch)
      [] u.command = "start" /\ u.argument = "dashes" -> EmptyQuery(u)
      [] u.command = "start" /\ u.argument = "none" /\ InGroup(u) -> Silence
      [] u.command = "subscribe" -> Subscribe
      [] OTHER -> Policy)

-----------------------------------------------------------------------------
(* Everything else                                                         *)

\* A join or leave of a group is tracked, whether it could be deleted or not.
Member(u) == IF InGroup(u) THEN Before(Event, Silence \cup Failure) ELSE Silence

Empty == Before(Event, Silence)

\* A message without text.
Bare(u) == IF u.member THEN Member(u) ELSE Empty

\* Somebody left or was removed from a group, or another change of a member.
ChatMember(u) == IF InGroup(u) THEN Silence \cup Before(Event, Silence) ELSE Silence

\* A press answers the callback and, if it was a find, tells the subscribers at once, with
\* an event each; not so if the callback could not be answered.
Callback(u) ==
  LET expired == {Plan(<<>>, "expired")} \cup Before(Event, {Plan(<<>>, "expired")})
      told == Before(Event, {Plan(e, "pressed") : e \in EventRuns})
      unanswered == Failure \cup Before(Event, Failure)
  IN  IF u.pressData THEN Ensured(u, expired \cup told \cup unanswered) ELSE Silence

\* An empty query is not tracked.
Inline(u) ==
  LET sent == {Plan(<<>>, "results")} \cup Failure
  IN  Ensured(u, sent \cup Before(Event, sent))

\* HandleUpdate.
Plans(u) ==
  CASE u.kind = "command" -> Ensured(u, Command(u))
    [] u.kind = "text" -> Ensured(u, Lookup(u, Unknown(u)))
    [] u.kind = "url" -> Ensured(u, Url(u))
    [] u.kind = "bare" -> Bare(u)
    [] u.kind = "callback" -> Callback(u)
    [] u.kind = "inline" -> Inline(u)
    [] u.kind = "chat_member" -> ChatMember(u)

-----------------------------------------------------------------------------
(* What a read decides                                                     *)

\* A group is not told.
FallbackReply(u) == IF InGroup(u) THEN "none" ELSE "fallback"

\* isWhitelisted: the result has a row for the URL, or there is none.
AfterWhitelist(plan, found) ==
  IF found THEN Plan(Tail(plan.todo), plan.reply) ELSE Plan(<<>>, "not whitelisted")

\* The response for the text, or else for "default", or else the fallback.
AfterResponse(u, plan, found) ==
  LET rest == Tail(plan.todo)
  IN  CASE found -> Plan(Event, "response")
        [] ~found /\ Head(rest).step = "event" -> Plan(rest, FallbackReply(u))
        [] OTHER -> Plan(rest, plan.reply)

\* The plan that is left once its first step, a read, returned a result or none.
AfterRead(u, plan, found) ==
  IF Head(plan.todo).key = Whitelist THEN AfterWhitelist(plan, found) ELSE AfterResponse(u, plan, found)

=============================================================================
