-------------------------- MODULE GatewaySessionProofs --------------------------
(***************************************************************************)
(* No request is forgotten, none is given the answer of another, and requests *)
(* go to the newest session: for any callers, any number of sessions and of    *)
(* answers that come late, in any order of the threads.                        *)
(***************************************************************************)
EXTENDS GatewaySession, TLAPS

------------------------------------------------------------------------------
(* The invariant, in two halves.  Requests: what a session lists is what is waited for in it,  *)
(* and an answer under way under the id of a waiting request is the answer to that request.     *)
(* Sessions: whoever is overtaken and not over is closed, or about to be by its successor.      *)

CallsTyped ==
    /\ pending \in [Sessions -> SUBSET Ids]
    /\ call \in [Callers -> Calls]
    /\ frames \subseteq Frames

Waiting(c) == call[c].at = "waiting"

\* c waits in session s for an event.
Listens(c, s) == Waiting(c) /\ call[c].session = s /\ call[c].event = "none"

\* A request is in a session once it looked, and has an id and events while it waits.
CallsWhole ==
    \A c \in Callers :
        /\ call[c].at = "idle" => call[c].session = 0
        /\ call[c].at # "idle" => call[c].session \in Sessions
        /\ Waiting(c) => call[c].id \in Ids
        /\ ~Waiting(c) => call[c].id = 0 /\ call[c].event = "none"

Listed == \A s \in Sessions, id \in Ids : id \in pending[s] <=> \E c \in Callers : Listens(c, s) /\ call[c].id = id

ClosedEmpty == \A s \in closed : pending[s] = {}

OwnIds == \A c, d \in Callers : Waiting(c) /\ Waiting(d) /\ call[c].id = call[d].id => c = d

AnswersOwn == \A f \in frames, c \in Callers : Waiting(c) /\ call[c].id = f.id => f.caller = c /\ ~f.old

CallsInv == CallsTyped /\ CallsWhole /\ Listed /\ ClosedEmpty /\ OwnIds /\ AnswersOwn /\ NoForeignAnswer

SessionsTyped ==
    /\ allowed \in BOOLEAN /\ admitted \in Nat
    /\ opened \in 0 .. MaxSessions /\ opened + admitted <= MaxSessions
    /\ registered \in 0 .. opened
    /\ phase \in [Sessions -> {"none", "opening", "serving", "over"}]
    /\ \A s \in Sessions : phase[s] = "none" <=> s > opened
    /\ replaces \in [Sessions -> 0 .. MaxSessions] /\ \A s \in Sessions : replaces[s] < s
    /\ heard \subseteq 1 .. opened
    /\ closed \subseteq 1 .. opened
    /\ swept \in 0 .. opened

Overtaken ==
    \A s \in 1 .. opened - 1 :
        phase[s] \in {"opening", "serving"} =>
            s \in closed \/ \E n \in Sessions : phase[n] = "opening" /\ replaces[n] = s

SessionsInv == SessionsTyped /\ NewestServes /\ Overtaken

IInv == SessionsInv /\ CallsInv

LEMMA InitHolds == ASSUME GatewayInit PROVE IInv
<1>1. SessionsInv
  <2>1. SessionsTyped  BY BoundsAssumption DEF GatewayInit, SessionsTyped, Sessions
  <2>2. NewestServes  BY BoundsAssumption DEF GatewayInit, NewestServes
  <2>3. Overtaken  BY BoundsAssumption DEF GatewayInit, Overtaken
  <2>4. QED  BY <2>1, <2>2, <2>3 DEF SessionsInv
<1>2. CallsInv
  <2>1. Idle \in Calls  BY BoundsAssumption DEF Idle, Calls
  <2>2. \A c \in Callers : call[c] = Idle /\ ~Waiting(c)  BY DEF GatewayInit, Idle, Waiting
  <2>3. CallsTyped  BY <2>1 DEF GatewayInit, CallsTyped
  <2>4. CallsWhole /\ NoForeignAnswer  BY <2>2 DEF CallsWhole, NoForeignAnswer, Idle, Waiting
  <2>5. Listed  BY <2>2 DEF GatewayInit, Listed, Listens
  <2>6. ClosedEmpty /\ OwnIds /\ AnswersOwn  BY <2>2 DEF GatewayInit, ClosedEmpty, OwnIds, AnswersOwn
  <2>7. QED  BY <2>3, <2>4, <2>5, <2>6 DEF CallsInv
<1>3. QED  BY <1>1, <1>2 DEF IInv

------------------------------------------------------------------------------
(* Requests. *)

LEMMA CallType == ASSUME CallsInv, NEW c \in Callers PROVE call[c] \in Calls
  BY DEF CallsInv, CallsTyped

LEMMA CallsStay ==
    ASSUME CallsInv, UNCHANGED <<closed, pending, call, frames>> PROVE CallsInv'
  BY DEF CallsInv, CallsTyped, CallsWhole, Listed, ClosedEmpty, OwnIds, AnswersOwn, NoForeignAnswer, Waiting, Listens

\* A session that closes, with what it was to be sent or without.
LEMMA ClosingKeeps ==
    ASSUME CallsInv, NEW s \in Sessions, Closing(s), frames' \subseteq frames
    PROVE  CallsInv'
<1> DEFINE Told(c) == call[c].session = s /\ call[c].id \in pending[s]
<1>1. \A c \in Callers :
         /\ call'[c] \in Calls
         /\ call'[c].at = call[c].at /\ call'[c].session = call[c].session /\ call'[c].id = call[c].id
         /\ call'[c].event = IF Told(c) THEN "dropped" ELSE call[c].event
  <2> SUFFICES ASSUME NEW c \in Callers
               PROVE  /\ call'[c] \in Calls
                      /\ call'[c].at = call[c].at /\ call'[c].session = call[c].session /\ call'[c].id = call[c].id
                      /\ call'[c].event = IF Told(c) THEN "dropped" ELSE call[c].event
    OBVIOUS
  <2>1. PICK k : k = call[c]  OBVIOUS
  <2>2. k \in Calls  BY <2>1, CallType
  <2>3. call'[c] = IF Told(c) THEN [k EXCEPT !.event = "dropped"] ELSE k  BY <2>1 DEF Closing
  <2>4. QED  BY <2>1, <2>2, <2>3 DEF Calls
<1>2. pending' \in [Sessions -> SUBSET Ids]
      /\ \A t \in Sessions : pending'[t] = IF t = s THEN {} ELSE pending[t]
  BY DEF Closing, CallsInv, CallsTyped
<1>3. CallsTyped'
  <2>1. call' = [c \in Callers |-> call'[c]]  BY DEF Closing
  <2>2. QED  BY <1>1, <1>2, <2>1 DEF CallsInv, CallsTyped
<1>4. \A c \in Callers : Waiting(c)' = Waiting(c)  BY <1>1 DEF Waiting
<1>5. \A c \in Callers : Told(c) => Waiting(c)
  BY IdsAssumption DEF CallsInv, CallsTyped, CallsWhole
<1>6. CallsWhole'  BY <1>1, <1>4, <1>5 DEF CallsInv, CallsWhole
<1>7. Listed'
  <2> SUFFICES ASSUME NEW t \in Sessions, NEW id \in Ids
               PROVE  id \in pending'[t] <=> \E c \in Callers : Listens(c, t)' /\ call'[c].id = id
    BY DEF Listed
  <2>1. CASE t = s
    <3>1. \A c \in Callers : Listens(c, s) => Told(c)
      BY DEF CallsInv, Listed, CallsWhole, Listens
    <3>2. \A c \in Callers : ~Listens(c, s)'  BY <1>1, <1>4, <3>1 DEF Listens
    <3>3. QED  BY <2>1, <1>2, <3>2
  <2>2. CASE t # s
    <3>1. \A c \in Callers : Listens(c, t)' <=> Listens(c, t)  BY <1>1, <1>4, <2>2 DEF Listens
    <3>2. QED  BY <2>2, <1>1, <1>2, <3>1 DEF CallsInv, Listed
  <2>3. QED  BY <2>1, <2>2
<1>8. ClosedEmpty'
  <2>1. closed' = closed \cup {s}  BY DEF Closing
  <2>2. \A t \in closed : pending[t] = {}  BY DEF CallsInv, ClosedEmpty
  <2>3. pending' = [pending EXCEPT ![s] = {}] /\ pending \in [Sessions -> SUBSET Ids]
    BY DEF Closing, CallsInv, CallsTyped
  <2>4. \A t \in closed' : pending'[t] = {}
    BY <2>1, <2>2, <2>3
  <2>5. QED  BY <2>4 DEF ClosedEmpty
<1>9. OwnIds'  BY <1>1, <1>4 DEF CallsInv, OwnIds
<1>10. AnswersOwn'  BY <1>1, <1>4 DEF CallsInv, AnswersOwn
<1>11. NoForeignAnswer'  BY <1>1 DEF CallsInv, NoForeignAnswer
<1>12. QED  BY <1>3, <1>6, <1>7, <1>8, <1>9, <1>10, <1>11 DEF CallsInv

LEMMA OpenedAreSessions == ASSUME SessionsTyped PROVE closed \subseteq Sessions /\ heard \subseteq Sessions
<1>1. 1 .. opened \subseteq Sessions  BY BoundsAssumption DEF SessionsTyped, Sessions
<1>2. QED  BY <1>1 DEF SessionsTyped

LEMMA LookKeeps == ASSUME CallsInv, SessionsTyped, NEW c \in Callers, Look(c) PROVE CallsInv'
<1>1. PICK q : q = [Idle EXCEPT !.at = "looked", !.session = registered]  OBVIOUS
<1>2. registered \in Sessions  BY BoundsAssumption DEF Look, SessionsTyped, Sessions
<1>3. q = [at |-> "looked", session |-> registered, id |-> 0, event |-> "none"]  BY <1>1 DEF Idle
<1>4. q \in Calls  BY <1>2, <1>3, BoundsAssumption DEF Calls, Sessions
<1>5. call \in [Callers -> Calls]  BY DEF CallsInv, CallsTyped
<1>6. call' = [call EXCEPT ![c] = q] /\ UNCHANGED <<closed, pending, frames>>  BY <1>1 DEF Look
<1>7. call' \in [Callers -> Calls] /\ \A d \in Callers : call'[d] = IF d = c THEN q ELSE call[d]
  BY <1>4, <1>5, <1>6
<1>8. ~Waiting(c) /\ ~Waiting(c)' /\ \A d \in Callers : Waiting(d)' = Waiting(d)
  BY <1>3, <1>7 DEF Waiting, Look
<1>9. CallsTyped'  BY <1>6, <1>7 DEF CallsInv, CallsTyped
<1>10. CallsWhole'  BY <1>2, <1>3, <1>7, <1>8 DEF CallsInv, CallsWhole
<1>11. Listed'  BY <1>6, <1>7, <1>8 DEF CallsInv, Listed, Listens
<1>12. ClosedEmpty' /\ NoForeignAnswer'  BY <1>3, <1>6, <1>7 DEF CallsInv, ClosedEmpty, NoForeignAnswer
<1>13. OwnIds' /\ AnswersOwn'  BY <1>6, <1>7, <1>8 DEF CallsInv, OwnIds, AnswersOwn
<1>14. QED  BY <1>9, <1>10, <1>11, <1>12, <1>13 DEF CallsInv

\* A caller whose request is over: it is not in its session any more, and what may still be
\* answered of it is old.
LEMMA OverKeeps ==
    ASSUME CallsInv, NEW c \in Callers, Waiting(c), Return(c), UNCHANGED closed, closed \subseteq Sessions,
           pending' \in [Sessions -> SUBSET Ids],
           \A s \in Sessions, id \in Ids :
               id \in pending'[s] <=> id \in pending[s] /\ ~(Listens(c, s) /\ call[c].id = id)
    PROVE  CallsInv'
<1>1. Idle \in Calls  BY BoundsAssumption DEF Idle, Calls
<1>2. call' \in [Callers -> Calls] /\ \A d \in Callers : call'[d] = IF d = c THEN Idle ELSE call[d]
  BY <1>1 DEF Return, CallsInv, CallsTyped
<1>3. ~Waiting(c)' /\ \A d \in Callers : d # c => Waiting(d)' = Waiting(d)
  BY <1>2 DEF Waiting, Idle
<1>4. \A f \in frames' : f \in Frames /\ (f \in frames \/ \E g \in frames : g.caller = c /\ ~g.old /\ f.id = g.id)
  <2> SUFFICES ASSUME NEW f \in frames'
               PROVE  f \in Frames /\ (f \in frames \/ \E g \in frames : g.caller = c /\ ~g.old /\ f.id = g.id)
    OBVIOUS
  <2>1. frames \subseteq Frames  BY DEF CallsInv, CallsTyped
  <2>2. CASE f \in frames  BY <2>1, <2>2
  <2>3. CASE \E g \in frames : g.caller = c /\ ~g.old /\ f = [g EXCEPT !.old = TRUE]
    <3>1. PICK g \in frames : g.caller = c /\ ~g.old /\ f = [g EXCEPT !.old = TRUE]  BY <2>3
    <3>2. g \in Frames  BY <2>1
    <3>3. f \in Frames /\ f.id = g.id  BY <3>1, <3>2 DEF Frames
    <3>4. QED  BY <3>1, <3>3
  <2>4. f \in frames \/ \E g \in frames : g.caller = c /\ ~g.old /\ f = [g EXCEPT !.old = TRUE]
    BY DEF Return
  <2>5. QED  BY <2>2, <2>3, <2>4
<1>5. CallsTyped'  BY <1>2, <1>4 DEF CallsTyped
<1>6. CallsWhole'  BY <1>2, <1>3 DEF CallsInv, CallsWhole, Idle
<1>7. Listed'
  <2> SUFFICES ASSUME NEW s \in Sessions, NEW id \in Ids
               PROVE  id \in pending'[s] <=> \E d \in Callers : Listens(d, s)' /\ call'[d].id = id
    BY DEF Listed
  <2>1. \A d \in Callers : Listens(d, s)' <=> Listens(d, s) /\ d # c  BY <1>2, <1>3 DEF Listens
  <2>2. id \in pending[s] <=> \E d \in Callers : Listens(d, s) /\ call[d].id = id  BY DEF CallsInv, Listed
  <2>3. \A d \in Callers : Listens(d, s) /\ call[d].id = id /\ call[c].id = id => d = c
    BY DEF CallsInv, OwnIds, Listens
  <2>4. QED  BY <2>1, <2>2, <2>3, <1>2
<1>8. ClosedEmpty'
  <2> SUFFICES ASSUME NEW s \in closed PROVE pending'[s] = {}  BY DEF ClosedEmpty
  <2>1. pending[s] = {}  BY DEF CallsInv, ClosedEmpty
  <2>2. QED  BY <2>1
<1>9. OwnIds'  BY <1>2, <1>3 DEF CallsInv, OwnIds
<1>10. AnswersOwn'
  <2> SUFFICES ASSUME NEW f \in frames', NEW d \in Callers, Waiting(d)', call'[d].id = f.id
               PROVE  f.caller = d /\ ~f.old
    BY DEF AnswersOwn
  <2>1. d # c /\ Waiting(d) /\ call[d].id = f.id  BY <1>2, <1>3
  <2>2. f \in frames  BY <2>1, <1>4 DEF CallsInv, AnswersOwn
  <2>3. QED  BY <2>1, <2>2 DEF CallsInv, AnswersOwn
<1>11. NoForeignAnswer'  BY <1>2 DEF CallsInv, NoForeignAnswer, Idle
<1>12. QED  BY <1>5, <1>6, <1>7, <1>8, <1>9, <1>10, <1>11 DEF CallsInv

LEMMA TimeOutKeeps == ASSUME CallsInv, SessionsTyped, NEW c \in Callers, TimeOut(c) PROVE CallsInv'
<1>1. PICK s \in Sessions : s = call[c].session  BY DEF TimeOut, CallsInv, CallsWhole
<1>2. PICK i \in Ids : i = call[c].id  BY DEF TimeOut, CallsInv, CallsWhole, Waiting
<1>3. pending' = [pending EXCEPT ![s] = pending[s] \ {i}] /\ Listens(c, s) /\ Return(c) /\ UNCHANGED closed
  BY <1>1, <1>2 DEF TimeOut, Listens, Waiting
<1>4. pending \in [Sessions -> SUBSET Ids]  BY DEF CallsInv, CallsTyped
<1>5. pending' \in [Sessions -> SUBSET Ids]  BY <1>3, <1>4
<1>6. \A t \in Sessions, id \in Ids :
          id \in pending'[t] <=> id \in pending[t] /\ ~(Listens(c, t) /\ call[c].id = id)
  BY <1>1, <1>2, <1>3, <1>4 DEF Listens
<1>7. closed \subseteq Sessions  BY OpenedAreSessions
<1>8. QED  BY <1>3, <1>5, <1>6, <1>7, OverKeeps DEF Listens

LEMMA WakeKeeps == ASSUME CallsInv, SessionsTyped, NEW c \in Callers, Wake(c) PROVE CallsInv'
<1>1. \A s : ~Listens(c, s)  BY DEF Wake, Listens
<1>2. closed \subseteq Sessions  BY OpenedAreSessions
<1>3. pending' \in [Sessions -> SUBSET Ids]  BY DEF CallsInv, CallsTyped, Wake
<1>4. QED  BY <1>1, <1>2, <1>3, OverKeeps DEF Wake, Waiting

\* The request of c is sent into session s under an id nothing mentions.
LEMMA SentKeeps ==
    ASSUME CallsInv, NEW c \in Callers, ~Waiting(c), NEW s \in Sessions, s \notin closed,
           s = call[c].session, NEW i \in Ids, IsNew(i),
           call' = [call EXCEPT ![c].at = "waiting", ![c].id = i],
           pending' = [pending EXCEPT ![s] = pending[s] \cup {i}],
           frames' = frames \cup {[session |-> s, id |-> i, caller |-> c, old |-> FALSE]},
           UNCHANGED closed
    PROVE  CallsInv'
<1>1. PICK k \in Calls : k = call[c]  BY CallType
<1>2. PICK q : q = [k EXCEPT !.at = "waiting", !.id = i]  OBVIOUS
<1>3. q \in Calls /\ q.at = "waiting" /\ q.id = i /\ q.session = s /\ q.event = "none"
  BY <1>1, <1>2 DEF Calls, CallsInv, CallsWhole
<1>4. call \in [Callers -> Calls] /\ pending \in [Sessions -> SUBSET Ids]  BY DEF CallsInv, CallsTyped
<1>5. call' = [call EXCEPT ![c] = q]  BY <1>1, <1>2, <1>4
<1>6. call' \in [Callers -> Calls] /\ \A d \in Callers : call'[d] = IF d = c THEN q ELSE call[d]
  BY <1>3, <1>4, <1>5
<1>7. Waiting(c)' /\ \A d \in Callers : d # c => Waiting(d)' = Waiting(d)  BY <1>3, <1>6 DEF Waiting
<1>8. \A d \in Callers : Waiting(d) => call[d].id # i  BY DEF IsNew, Waiting
<1>9. PICK f0 : f0 = [session |-> s, id |-> i, caller |-> c, old |-> FALSE]  OBVIOUS
<1>10. f0 \in Frames /\ f0.id = i /\ f0.caller = c /\ ~f0.old  BY <1>9 DEF Frames
<1>11. frames' = frames \cup {f0}  BY <1>9
<1>12. CallsTyped'
  <2>1. pending' \in [Sessions -> SUBSET Ids]  BY <1>4
  <2>2. QED  BY <2>1, <1>6, <1>10, <1>11 DEF CallsInv, CallsTyped
<1>13. CallsWhole'  BY <1>3, <1>6, <1>7 DEF CallsInv, CallsWhole
<1>14. Listed'
  <2> SUFFICES ASSUME NEW t \in Sessions, NEW id \in Ids
               PROVE  id \in pending'[t] <=> \E d \in Callers : Listens(d, t)' /\ call'[d].id = id
    BY DEF Listed
  <2>1. \A d \in Callers : d # c => (Listens(d, t)' <=> Listens(d, t))  BY <1>6, <1>7 DEF Listens
  <2>2. Listens(c, t)' <=> t = s  BY <1>3, <1>6, <1>7 DEF Listens
  <2>3. ~Listens(c, t)  BY DEF Listens
  <2>4. id \in pending[t] <=> \E d \in Callers : Listens(d, t) /\ call[d].id = id  BY DEF CallsInv, Listed
  <2>5. id \in pending'[t] <=> id \in pending[t] \/ (t = s /\ id = i)  BY <1>4
  <2>6. QED  BY <2>1, <2>2, <2>3, <2>4, <2>5, <1>3, <1>6
<1>15. ClosedEmpty'  BY <1>4 DEF CallsInv, ClosedEmpty
<1>16. OwnIds'  BY <1>3, <1>6, <1>7, <1>8 DEF CallsInv, OwnIds
<1>17. AnswersOwn'
  <2> SUFFICES ASSUME NEW f \in frames', NEW d \in Callers, Waiting(d)', call'[d].id = f.id
               PROVE  f.caller = d /\ ~f.old
    BY DEF AnswersOwn
  <2>1. CASE f = f0  BY <2>1, <1>6, <1>7, <1>8, <1>10
  <2>2. CASE f \in frames
    <3>1. f.id # i  BY <2>2 DEF IsNew
    <3>2. d # c  BY <3>1, <1>3, <1>6
    <3>3. QED  BY <2>2, <3>2, <1>6, <1>7 DEF CallsInv, AnswersOwn
  <2>3. QED  BY <1>11, <2>1, <2>2
<1>18. NoForeignAnswer'  BY <1>3, <1>6 DEF CallsInv, NoForeignAnswer
<1>19. QED  BY <1>12, <1>13, <1>14, <1>15, <1>16, <1>17, <1>18 DEF CallsInv

\* The request finds its session closed.
LEMMA RefusedKeeps ==
    ASSUME CallsInv, NEW c \in Callers, ~Waiting(c), call' = [call EXCEPT ![c] = Idle],
           UNCHANGED <<closed, pending, frames>>
    PROVE  CallsInv'
<1>1. Idle \in Calls  BY BoundsAssumption DEF Idle, Calls
<1>2. call' \in [Callers -> Calls] /\ \A d \in Callers : call'[d] = IF d = c THEN Idle ELSE call[d]
  BY <1>1 DEF CallsInv, CallsTyped
<1>3. \A d \in Callers : Waiting(d)' = Waiting(d)  BY <1>2 DEF Waiting, Idle
<1>4. CallsTyped'  BY <1>2 DEF CallsInv, CallsTyped
<1>5. CallsWhole'  BY <1>2, <1>3 DEF CallsInv, CallsWhole, Idle
<1>6. Listed'  BY <1>2, <1>3 DEF CallsInv, Listed, Listens
<1>7. ClosedEmpty' /\ NoForeignAnswer'  BY <1>2 DEF CallsInv, ClosedEmpty, NoForeignAnswer, Idle
<1>8. OwnIds' /\ AnswersOwn'  BY <1>2, <1>3 DEF CallsInv, OwnIds, AnswersOwn
<1>9. QED  BY <1>4, <1>5, <1>6, <1>7, <1>8 DEF CallsInv

LEMMA AskKeeps == ASSUME CallsInv, NEW c \in Callers, Ask(c) PROVE CallsInv'
<1>1. ~Waiting(c)  BY DEF Ask, Waiting
<1>2. PICK s \in Sessions : s = call[c].session  BY DEF Ask, CallsInv, CallsWhole
<1>3. CASE s \in closed /\ call' = [call EXCEPT ![c] = Idle] /\ UNCHANGED <<pending, frames>>
  BY <1>1, <1>3, RefusedKeeps DEF Ask
<1>4. CASE /\ s \notin closed /\ \E id \in Ids : IsNew(id)
           /\ call' = [call EXCEPT ![c].at = "waiting", ![c].id = NewId]
           /\ pending' = [pending EXCEPT ![s] = @ \cup {NewId}]
           /\ frames' = frames \cup {[session |-> s, id |-> NewId, caller |-> c, old |-> FALSE]}
  <2>1. NewId \in Ids /\ IsNew(NewId)  BY <1>4 DEF NewId
  <2>2. PICK i \in Ids : i = NewId /\ IsNew(i)  BY <2>1
  <2>3. pending' = [pending EXCEPT ![s] = pending[s] \cup {i}]  BY <1>4, <2>2 DEF CallsInv, CallsTyped
  <2>4. UNCHANGED closed  BY DEF Ask
  <2>5. QED  BY <1>1, <1>2, <1>4, <2>2, <2>3, <2>4, SentKeeps
<1>5. QED  BY <1>2, <1>3, <1>4 DEF Ask

LEMMA ResolveKeeps == ASSUME CallsInv, SessionsTyped, NEW s \in Sessions, Resolve(s) PROVE CallsInv'
<1>1. PICK f \in frames :
         /\ f.session = s /\ frames' = frames \ {f}
         /\ pending' = [pending EXCEPT ![s] = @ \ {f.id}]
         /\ call' = [c \in Callers |->
                IF f.id \in pending[s] /\ call[c].session = s /\ call[c].id = f.id
                THEN [call[c] EXCEPT !.event = IF f.caller = c /\ ~f.old THEN "answer" ELSE "foreign"]
                ELSE call[c]]
         /\ UNCHANGED <<sessionVars, closed>>
  BY DEF Resolve
<1>2. f \in Frames /\ f.id \in Ids  BY DEF CallsInv, CallsTyped, Frames
<1> DEFINE Hears(c) == f.id \in pending[s] /\ call[c].session = s /\ call[c].id = f.id
<1>3. \A c \in Callers : Hears(c) => Waiting(c) /\ f.caller = c /\ ~f.old
  BY <1>2, IdsAssumption DEF CallsInv, CallsWhole, AnswersOwn
<1>4. \A c \in Callers :
         /\ call'[c] \in Calls
         /\ call'[c].at = call[c].at /\ call'[c].session = call[c].session /\ call'[c].id = call[c].id
         /\ call'[c].event = IF Hears(c) THEN "answer" ELSE call[c].event
  <2> SUFFICES ASSUME NEW c \in Callers
               PROVE  /\ call'[c] \in Calls
                      /\ call'[c].at = call[c].at /\ call'[c].session = call[c].session /\ call'[c].id = call[c].id
                      /\ call'[c].event = IF Hears(c) THEN "answer" ELSE call[c].event
    OBVIOUS
  <2>1. PICK k \in Calls : k = call[c]  BY CallType
  <2>2. call'[c] = IF Hears(c) THEN [k EXCEPT !.event = "answer"] ELSE k  BY <1>1, <1>3, <2>1
  <2>3. QED  BY <2>1, <2>2 DEF Calls
<1>5. pending \in [Sessions -> SUBSET Ids]  BY DEF CallsInv, CallsTyped
<1>6. pending' \in [Sessions -> SUBSET Ids]
      /\ \A t \in Sessions : pending'[t] = IF t = s THEN pending[s] \ {f.id} ELSE pending[t]
  BY <1>1, <1>5
<1>7. CallsTyped'
  <2>1. call' = [c \in Callers |-> call'[c]]  BY <1>1
  <2>2. QED  BY <1>1, <1>4, <1>6, <2>1 DEF CallsInv, CallsTyped
<1>8. \A c \in Callers : Waiting(c)' = Waiting(c)  BY <1>4 DEF Waiting
<1>9. CallsWhole'  BY <1>3, <1>4, <1>8 DEF CallsInv, CallsWhole
<1>10. Listed'
  <2> SUFFICES ASSUME NEW t \in Sessions, NEW id \in Ids
               PROVE  id \in pending'[t] <=> \E c \in Callers : Listens(c, t)' /\ call'[c].id = id
    BY DEF Listed
  <2>1. \A c \in Callers : Listens(c, t)' <=> Listens(c, t) /\ ~Hears(c)  BY <1>4, <1>8 DEF Listens
  <2>2. id \in pending[t] <=> \E c \in Callers : Listens(c, t) /\ call[c].id = id  BY DEF CallsInv, Listed
  <2>3. id \in pending'[t] <=> id \in pending[t] /\ ~(t = s /\ id = f.id)  BY <1>6
  <2>4. \A c \in Callers : Listens(c, t) /\ call[c].id = id /\ t = s /\ id = f.id => Hears(c)
    BY DEF CallsInv, Listed, Listens
  <2>5. \A c \in Callers : Hears(c) /\ Listens(c, t) /\ call[c].id = id => t = s /\ id = f.id
    BY DEF Listens
  <2>6. QED  BY <2>1, <2>2, <2>3, <2>4, <2>5, <1>4
<1>11. ClosedEmpty'
  <2>1. closed \subseteq Sessions  BY OpenedAreSessions
  <2>2. QED  BY <2>1, <1>1, <1>6 DEF CallsInv, ClosedEmpty
<1>12. OwnIds' /\ AnswersOwn'  BY <1>1, <1>4, <1>8 DEF CallsInv, OwnIds, AnswersOwn
<1>13. NoForeignAnswer'  BY <1>4 DEF CallsInv, NoForeignAnswer
<1>14. QED  BY <1>7, <1>9, <1>10, <1>11, <1>12, <1>13 DEF CallsInv

------------------------------------------------------------------------------
(* Sessions. *)

LEMMA SessionsStay == ASSUME SessionsInv, UNCHANGED <<sessionVars, closed>> PROVE SessionsInv'
<1>1. SessionsTyped'  BY DEF SessionsInv, SessionsTyped, sessionVars
<1>2. NewestServes'  BY DEF SessionsInv, NewestServes, sessionVars
<1>3. Overtaken'  BY DEF SessionsInv, Overtaken, sessionVars
<1>4. QED  BY <1>1, <1>2, <1>3 DEF SessionsInv

\* One more session is closed, and nothing else is touched.
LEMMA ClosedMore ==
    ASSUME SessionsInv, NEW s \in 1 .. opened, closed' = closed \cup {s}, swept' \in {swept, 0},
           UNCHANGED <<allowed, admitted, opened, registered, phase, replaces, heard>>
    PROVE  SessionsInv'
<1>1. SessionsTyped'  BY DEF SessionsInv, SessionsTyped
<1>2. NewestServes'  BY DEF SessionsInv, NewestServes
<1>3. Overtaken'  BY DEF SessionsInv, Overtaken
<1>4. QED  BY <1>1, <1>2, <1>3 DEF SessionsInv

LEMMA AdmitKeeps == ASSUME SessionsInv, Admit PROVE SessionsInv'
<1>1. SessionsTyped'  BY BoundsAssumption DEF SessionsInv, SessionsTyped, Admit
<1>2. NewestServes'  BY DEF SessionsInv, NewestServes, Admit
<1>3. Overtaken'  BY DEF SessionsInv, Overtaken, Admit
<1>4. QED  BY <1>1, <1>2, <1>3 DEF SessionsInv

LEMMA RegistryKeeps == ASSUME SessionsInv, Revoke \/ Reinstate \/ Sweep PROVE SessionsInv'
<1>1. SessionsTyped'  BY DEF SessionsInv, SessionsTyped, Revoke, Reinstate, Sweep
<1>2. NewestServes'  BY DEF SessionsInv, NewestServes, Revoke, Reinstate, Sweep
<1>3. Overtaken'  BY DEF SessionsInv, Overtaken, Revoke, Reinstate, Sweep
<1>4. QED  BY <1>1, <1>2, <1>3 DEF SessionsInv

LEMMA RegisterKeeps == ASSUME SessionsInv, Register PROVE SessionsInv'
<1>1. PICK n : n = opened + 1  OBVIOUS
<1>2. n \in Sessions /\ n > opened /\ opened \in Nat /\ admitted \in Nat
  BY <1>1, BoundsAssumption DEF SessionsInv, SessionsTyped, Register, Sessions
<1>3. phase' = [phase EXCEPT ![n] = "opening"] /\ replaces' = [replaces EXCEPT ![n] = registered]
      /\ opened' = n /\ registered' = n /\ admitted' = admitted - 1 /\ admitted > 0
      /\ UNCHANGED <<allowed, heard, swept, closed>>
  BY <1>1 DEF Register
<1>4. phase' \in [Sessions -> {"none", "opening", "serving", "over"}]
      /\ \A s \in Sessions : phase'[s] = IF s = n THEN "opening" ELSE phase[s]
  BY <1>2, <1>3 DEF SessionsInv, SessionsTyped
<1>5. registered \in 0 .. MaxSessions /\ registered < n
  BY <1>1, <1>2, <1>3, BoundsAssumption DEF SessionsInv, SessionsTyped
<1>6. replaces' \in [Sessions -> 0 .. MaxSessions]
      /\ \A s \in Sessions : replaces'[s] = IF s = n THEN registered ELSE replaces[s]
  BY <1>2, <1>3, <1>5 DEF SessionsInv, SessionsTyped
<1>7. SessionsTyped'
  <2>1. n \in 0 .. MaxSessions /\ n + (admitted - 1) <= MaxSessions /\ admitted - 1 \in Nat
    BY <1>1, <1>2, <1>3, BoundsAssumption DEF SessionsInv, SessionsTyped
  <2>2. \A s \in Sessions : phase'[s] = "none" <=> s > n
    BY <1>1, <1>2, <1>4, BoundsAssumption DEF SessionsInv, SessionsTyped, Sessions
  <2>3. \A s \in Sessions : replaces'[s] < s  BY <1>2, <1>5, <1>6 DEF SessionsInv, SessionsTyped
  <2>4. 1 .. opened \subseteq 1 .. n  BY <1>1, <1>2
  <2>5. n \in 0 .. n  BY <1>1, <1>2
  <2>6. QED  BY <1>3, <1>4, <1>6, <2>1, <2>2, <2>3, <2>4, <2>5 DEF SessionsInv, SessionsTyped
<1>8. Overtaken'
  <2> SUFFICES ASSUME NEW s \in 1 .. n - 1, phase'[s] \in {"opening", "serving"}
               PROVE  s \in closed \/ \E m \in Sessions : phase'[m] = "opening" /\ replaces'[m] = s
    BY <1>3 DEF Overtaken
  <2>1. s \in Sessions /\ s # n /\ s \in 1 .. opened /\ phase[s] \in {"opening", "serving"}
    BY <1>1, <1>2, <1>4, BoundsAssumption DEF Sessions
  <2>2. CASE s = opened
    <3>1. registered = s  BY <2>1, <2>2 DEF SessionsInv, NewestServes
    <3>2. QED  BY <1>2, <1>4, <1>6, <3>1
  <2>3. CASE s # opened
    <3>1. s \in closed \/ \E m \in Sessions : phase[m] = "opening" /\ replaces[m] = s
      BY <1>2, <2>1, <2>3 DEF SessionsInv, Overtaken
    <3>2. \A m \in Sessions : phase[m] = "opening" => m # n
      BY <1>2 DEF SessionsInv, SessionsTyped
    <3>3. QED  BY <1>4, <1>6, <3>1, <3>2
  <2>4. QED  BY <2>2, <2>3
<1>9. NewestServes'
  <2>1. phase'[n] = "opening"  BY <1>2, <1>4
  <2>2. QED  BY <1>2, <1>3, <1>8, <2>1 DEF NewestServes, Overtaken
<1>10. QED  BY <1>7, <1>8, <1>9 DEF SessionsInv

\* A session whose handler gets further: it serves what it opened, or is over.
LEMMA HandlerMoves ==
    ASSUME SessionsInv, NEW s \in Sessions, phase[s] \in {"opening", "serving"},
           NEW p \in {"serving", "over"}, phase' = [phase EXCEPT ![s] = p],
           heard' \subseteq heard \cup {s}, closed \subseteq closed', closed' \subseteq 1 .. opened,
           phase[s] = "opening" => p = "serving" /\ (replaces[s] # 0 => replaces[s] \in closed'),
           registered' = IF p = "over" /\ registered = s THEN 0 ELSE registered,
           UNCHANGED <<allowed, admitted, opened, replaces, swept>>
    PROVE  SessionsInv'
<1>1. phase' \in [Sessions -> {"none", "opening", "serving", "over"}]
      /\ \A t \in Sessions : phase'[t] = IF t = s THEN p ELSE phase[t]
  BY DEF SessionsInv, SessionsTyped
<1>2. s \in 1 .. opened /\ opened \in Nat
  BY BoundsAssumption DEF SessionsInv, SessionsTyped, Sessions
<1>3. SessionsTyped'
  <2>1. \A t \in Sessions : phase'[t] = "none" <=> t > opened  BY <1>1 DEF SessionsInv, SessionsTyped
  <2>2. registered' \in 0 .. opened  BY <1>2 DEF SessionsInv, SessionsTyped
  <2>3. heard' \subseteq 1 .. opened  BY <1>2 DEF SessionsInv, SessionsTyped
  <2>4. QED  BY <1>1, <2>1, <2>2, <2>3 DEF SessionsInv, SessionsTyped
<1>4. Overtaken'
  <2> SUFFICES ASSUME NEW t \in 1 .. opened - 1, phase'[t] \in {"opening", "serving"}, t \notin closed'
               PROVE  \E m \in Sessions : phase'[m] = "opening" /\ replaces[m] = t
    BY DEF Overtaken
  <2>1. t \in Sessions /\ t # 0  BY <1>2, BoundsAssumption DEF SessionsInv, SessionsTyped, Sessions
  <2>2. phase[t] \in {"opening", "serving"} /\ t \notin closed  BY <1>1, <2>1
  <2>3. PICK m \in Sessions : phase[m] = "opening" /\ replaces[m] = t
    BY <2>2 DEF SessionsInv, Overtaken
  <2>4. m # s  BY <2>1, <2>3
  <2>5. QED  BY <1>1, <2>3, <2>4
<1>5. NewestServes'
  <2>1. registered' # 0 => registered' = opened'  BY DEF SessionsInv, NewestServes
  <2>2. opened # 0 => opened \in Sessions  BY <1>2, BoundsAssumption DEF SessionsInv, SessionsTyped, Sessions
  <2>3. opened # 0 => (registered' = opened <=> phase'[opened] \in {"opening", "serving"})
    BY <1>1, <1>2, <2>2 DEF SessionsInv, NewestServes
  <2>4. QED  BY <1>4, <2>1, <2>3 DEF NewestServes, Overtaken
<1>6. QED  BY <1>3, <1>4, <1>5 DEF SessionsInv

LEMMA ServeKeepsSessions == ASSUME SessionsInv, NEW s \in Sessions, Serve(s) PROVE SessionsInv'
<1>1. s \in 1 .. opened /\ replaces[s] < s /\ replaces[s] \in 0 .. MaxSessions
  BY BoundsAssumption DEF SessionsInv, SessionsTyped, Sessions, Serve
<1>2. closed' = closed \cup (IF replaces[s] = 0 THEN {} ELSE {replaces[s]})  BY DEF Serve, Closing
<1>3. closed' \subseteq 1 .. opened
  <2>1. replaces[s] # 0 => replaces[s] \in 1 .. opened
    BY <1>1, BoundsAssumption DEF SessionsInv, SessionsTyped
  <2>2. QED  BY <1>2, <2>1 DEF SessionsInv, SessionsTyped
<1>4. phase[s] = "opening" /\ phase' = [phase EXCEPT ![s] = "serving"] /\ heard' = heard \cup {s}
      /\ UNCHANGED <<allowed, admitted, opened, registered, replaces, swept>>
  BY DEF Serve
<1>5. QED  BY <1>2, <1>3, <1>4, HandlerMoves

LEMMA LeaveKeepsSessions ==
    ASSUME SessionsInv, NEW s \in Sessions, phase[s] = "serving", Leave(s) PROVE SessionsInv'
<1>1. s \in 1 .. opened  BY BoundsAssumption DEF SessionsInv, SessionsTyped, Sessions
<1>2. closed' = closed \cup {s} /\ closed' \subseteq 1 .. opened
  BY <1>1 DEF Leave, Closing, SessionsInv, SessionsTyped
<1>3. QED  BY <1>2, HandlerMoves DEF Leave

LEMMA BreakKeepsSessions == ASSUME SessionsInv, NEW s \in Sessions, Break(s) PROVE SessionsInv'
<1>1. s \in 1 .. opened  BY DEF Break, SessionsInv, SessionsTyped
<1>2. SessionsTyped'  BY <1>1 DEF SessionsInv, SessionsTyped, Break, Closing
<1>3. NewestServes'  BY DEF SessionsInv, NewestServes, Break, Closing
<1>4. Overtaken'  BY DEF SessionsInv, Overtaken, Break, Closing
<1>5. QED  BY <1>2, <1>3, <1>4 DEF SessionsInv

------------------------------------------------------------------------------
(* Every step. *)

LEMMA CallerKeeps ==
    ASSUME IInv, NEW c \in Callers, Look(c) \/ Ask(c) \/ TimeOut(c) \/ Wake(c) PROVE IInv'
<1>1. UNCHANGED <<sessionVars, closed>>  BY DEF Look, Ask, TimeOut, Wake
<1>2. SessionsInv'  BY <1>1, SessionsStay DEF IInv
<1>3. CallsInv'  BY LookKeeps, AskKeeps, TimeOutKeeps, WakeKeeps DEF IInv, SessionsInv
<1>4. QED  BY <1>2, <1>3 DEF IInv

LEMMA ServeKeepsCalls == ASSUME IInv, NEW s \in Sessions, Serve(s) PROVE CallsInv'
<1>1. frames' \subseteq frames  BY DEF Serve
<1>2. CASE replaces[s] # 0 /\ Closing(replaces[s])
  <2>1. PICK t \in Sessions : t = replaces[s]
    BY <1>2, BoundsAssumption DEF IInv, SessionsInv, SessionsTyped, Sessions
  <2>2. Closing(t)  BY <1>2, <2>1
  <2>3. QED  BY <1>1, <2>2, ClosingKeeps DEF IInv
<1>3. CASE replaces[s] = 0 /\ UNCHANGED <<closed, pending, call>>
  BY <1>3, CallsStay DEF IInv, Serve
<1>4. QED  BY <1>2, <1>3 DEF Serve

LEMMA SessionKeeps ==
    ASSUME IInv, NEW s \in Sessions,
           Resolve(s) \/ Serve(s) \/ Break(s) \/ EndServe(s) \/ Abandon(s)
    PROVE  IInv'
<1>1. CASE Resolve(s)
  <2>1. UNCHANGED <<sessionVars, closed>>  BY <1>1 DEF Resolve
  <2>2. QED  BY <1>1, <2>1, SessionsStay, ResolveKeeps DEF IInv, SessionsInv
<1>2. CASE Serve(s)  BY <1>2, ServeKeepsSessions, ServeKeepsCalls DEF IInv
<1>3. CASE Break(s)
  <2>1. Closing(s) /\ frames' \subseteq frames  BY <1>3 DEF Break
  <2>2. QED  BY <1>3, <2>1, ClosingKeeps, BreakKeepsSessions DEF IInv
<1>4. CASE phase[s] = "serving" /\ Leave(s)
  <2>1. Closing(s) /\ frames' \subseteq frames  BY <1>4 DEF Leave
  <2>2. QED  BY <1>4, <2>1, ClosingKeeps, LeaveKeepsSessions DEF IInv
<1>5. QED  BY <1>1, <1>2, <1>3, <1>4 DEF EndServe, Abandon

LEMMA SweptKeeps == ASSUME IInv, CloseSwept PROVE IInv'
<1>1. PICK s \in Sessions : s = swept /\ s \in 1 .. opened
  BY BoundsAssumption DEF IInv, SessionsInv, SessionsTyped, Sessions, CloseSwept
<1>2. Closing(s) /\ closed' = closed \cup {s} /\ frames' \subseteq frames
  BY <1>1 DEF CloseSwept, Closing
<1>3. SessionsInv'  BY <1>1, <1>2, ClosedMore DEF IInv, CloseSwept
<1>4. CallsInv'  BY <1>2, ClosingKeeps DEF IInv
<1>5. QED  BY <1>3, <1>4 DEF IInv

LEMMA StreamKeeps ==
    ASSUME IInv, Admit \/ Register \/ Revoke \/ Reinstate \/ Sweep PROVE IInv'
<1>1. CallsInv'  BY CallsStay DEF IInv, Admit, Register, Revoke, Reinstate, Sweep
<1>2. SessionsInv'  BY AdmitKeeps, RegisterKeeps, RegistryKeeps DEF IInv
<1>3. QED  BY <1>1, <1>2 DEF IInv

LEMMA NextKeeps == ASSUME IInv, [GatewayNext]_gatewayVars PROVE IInv'
<1>1. CASE UNCHANGED gatewayVars
  <2>1. UNCHANGED <<sessionVars, closed>> /\ UNCHANGED <<closed, pending, call, frames>>
    BY <1>1 DEF gatewayVars
  <2>2. QED  BY <2>1, SessionsStay, CallsStay DEF IInv
<1>2. CASE GatewayNext  BY <1>2, CallerKeeps, SessionKeeps, StreamKeeps, SweptKeeps DEF GatewayNext
<1>3. QED  BY <1>1, <1>2

\* Whatever the callers, the sessions, their streams and the sweep do, in any order, IInv holds.
THEOREM Invariance == GatewaySpec => []IInv
<1>1. GatewayInit => IInv  BY InitHolds
<1>2. IInv /\ [GatewayNext]_gatewayVars => IInv'  BY NextKeeps
<1>3. QED  BY <1>1, <1>2, PTL DEF GatewaySpec

------------------------------------------------------------------------------
(* What follows. *)

\* Sessions are numbered as they register, none is registered, replaced, closed or read before it
\* was opened, and a session is only replaced by a later one (transport.py, _open and _Session).
THEOREM GatewayTypeCorrect == GatewaySpec => []GatewayTypeOK
<1>1. IInv => GatewayTypeOK  BY DEF IInv, SessionsInv, SessionsTyped, CallsInv, CallsTyped, GatewayTypeOK
<1>2. QED  BY <1>1, Invariance, PTL

\* A request that waits is listed in the session it waits in, under an id no other request has,
\* and that session is open: so it is answered, dropped with the session or times out, and
\* nothing stays listed once it is over (_Session.request, resolve and close).
THEOREM NobodyIsForgotten == GatewaySpec => []NobodyForgotten
<1>1. ASSUME IInv PROVE NobodyForgotten
  <2>1. ASSUME NEW s \in Sessions
        PROVE  pending[s] = {call[c].id : c \in {d \in Callers :
                   call[d].at = "waiting" /\ call[d].session = s /\ call[d].event = "none"}}
    <3>1. pending[s] \subseteq Ids  BY <1>1 DEF IInv, CallsInv, CallsTyped
    <3>2. \A c \in Callers : Listens(c, s) => call[c].id \in Ids
      BY <1>1 DEF IInv, CallsInv, CallsWhole, Listens
    <3>3. \A id \in Ids : id \in pending[s] <=> \E c \in Callers : Listens(c, s) /\ call[c].id = id
      BY <1>1 DEF IInv, CallsInv, Listed
    <3>4. QED  BY <3>1, <3>2, <3>3 DEF Listens, Waiting
  <2>2. \A s \in closed : pending[s] = {}  BY <1>1 DEF IInv, CallsInv, ClosedEmpty
  <2>3. \A c, d \in Callers :
            call[c].at = "waiting" /\ call[d].at = "waiting" /\ call[c].id = call[d].id => c = d
    BY <1>1 DEF IInv, CallsInv, OwnIds, Waiting
  <2>4. QED  BY <2>1, <2>2, <2>3 DEF NobodyForgotten
<1>2. QED  BY <1>1, Invariance, PTL

\* However late an answer comes, and whatever was asked since, it goes to the request it answers
\* or to none (resolve, and the ids that are never given twice).
THEOREM NoAnswerIsForeign == GatewaySpec => []NoForeignAnswer
<1>1. IInv => NoForeignAnswer  BY DEF IInv, CallsInv
<1>2. QED  BY <1>1, Invariance, PTL

\* Requests go to the newest session as long as its handler serves it, an older one that ends
\* late unregisters nobody else, and an older one still served is closed or about to be (_open
\* and its finally).
THEOREM NewestIsServed == GatewaySpec => []NewestServes
<1>1. IInv => NewestServes  BY DEF IInv, SessionsInv
<1>2. QED  BY <1>1, Invariance, PTL
==============================================================================
