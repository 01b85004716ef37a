----------------------------- MODULE Conversation -----------------------------
(***************************************************************************)
(* A session as the user and the readers of HO2m see it: what SessionHostV2 *)
(* and SessionManager promise, whatever happens inside a turn.  Messages    *)
(* are answered one at a time; no message is counted more than twice, and   *)
(* HO2 answers none that is not recorded; a turn may be recorded late, but  *)
(* never before those it follows, and the summary comes after all of them.  *)
(* HO2Supervisor is checked, and proved, to implement it.                   *)
(***************************************************************************)
EXTENDS Naturals, Sequences

VARIABLES
  phase,     \* "closed", "open", "busy" with a message, or "over"
  asked,     \* messages so far
  answer,    \* how the last of them was answered
  noted,     \* the message of each turn the session has counted
  recorded,  \* the turns that are in the ledger
  told       \* the counts of turns that a summary in the ledger gives

vars == <<phase, asked, answer, noted, recorded, told>>

Answers == {"success", "degraded", "error"}

NotedTwice ==
  \E i, j \in 1..Len(noted) : i # j /\ noted[i] = asked /\ noted[j] = asked

Init ==
  /\ phase = "closed" /\ asked = 0 /\ answer = "none"
  /\ noted = << >> /\ recorded = {} /\ told = {}

\* Turns are recorded in the order they are counted in, and for good.
Lands ==
  /\ recorded \subseteq recorded'
  /\ \E k \in 0..Len(noted') : recorded' = 1..k

\* The summary may be recorded too, after every turn.
Tell ==
  /\ Lands
  /\ told \subseteq told' /\ told' \subseteq {Len(noted)}
  /\ told' # {} => recorded' = 1..Len(noted)

\* start_session(): a session that cannot be started is over.
Start ==
  /\ phase = "closed"
  /\ phase' \in {"open", "over"}
  /\ UNCHANGED <<asked, answer, noted, recorded, told>>

\* process_turn() is called...
Ask ==
  /\ phase = "open"
  /\ phase' = "busy"
  /\ asked' = asked + 1
  /\ answer' = "none"
  /\ UNCHANGED <<noted, recorded, told>>

\* ... add_turn() inside of it, whose entry may be late ...
Note ==
  /\ phase = "busy"
  /\ ~NotedTwice
  /\ noted' = Append(noted, asked)
  /\ Lands
  /\ UNCHANGED <<phase, asked, answer, told>>

\* ... entries that were late ...
CatchUp ==
  /\ phase = "busy"
  /\ Lands
  /\ UNCHANGED <<phase, asked, answer, noted, told>>

\* ... and process_turn() returns.
Reply ==
  /\ phase = "busy"
  /\ phase' = "open"
  /\ answer' \in Answers
  /\ answer' = "success" => \E n \in recorded : noted[n] = asked
  /\ UNCHANGED <<asked, noted, recorded, told>>

\* end_session(), whose entry may be late, or lost with those before it
End ==
  /\ phase = "open"
  /\ phase' = "over"
  /\ Tell
  /\ UNCHANGED <<asked, answer, noted>>

\* The program ends; the last entries may still land.
Leave ==
  /\ phase = "over"
  /\ Tell
  /\ UNCHANGED <<phase, asked, answer, noted>>

Next == Start \/ Ask \/ Note \/ CatchUp \/ Reply \/ End \/ Leave

Spec == Init /\ [][Next]_vars
=============================================================================
