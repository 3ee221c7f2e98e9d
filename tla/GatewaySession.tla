---------------------------- MODULE GatewaySession ----------------------------
(***************************************************************************)
(* The control plane's end of the connector transport                       *)
(* (packages/connector/transport.py): one connector keeps one stream open,   *)
(* which is a session here, and every request to it waits for its answer on  *)
(* the session that was registered when it was made.                         *)
(*                                                                          *)
(* Threads meet in it: the callers, and for every session the one that opens *)
(* and serves it and the one that reads it, and the sweep that ends what was *)
(* revoked.  A step is what a thread does under one lock, with the events it *)
(* sets right after: setting an event later than that changes nothing but    *)
(* which of two errors its waiter gets.                                      *)
(***************************************************************************)
EXTENDS Naturals, FiniteSets

CONSTANTS
    Callers,        \* threads that send requests to the connector
    Ids,            \* bound: request ids; one that nothing mentions any more stands for a new one
    MaxSessions,    \* bound: how many streams the connector opens
    MaxLate         \* bound: how many requests that are over the connector still answers

ASSUME IdsAssumption == IsFiniteSet(Callers) /\ 0 \notin Ids
ASSUME BoundsAssumption == MaxSessions \in Nat /\ MaxLate \in Nat

VARIABLES
    allowed,        \* the connector's identity is allowed
    admitted,       \* streams that passed the check and are not registered yet
    opened,         \* sessions are numbered as they register: how many there were
    registered,     \* the session requests go to, or 0
    phase,          \* session -> how far its handler is
    replaces,       \* session -> the session it found registered, or 0
    closed,         \* sessions that are closed
    heard,          \* sessions whose stream is still read
    swept,          \* the session the sweep has picked and not closed yet, or 0
    pending,        \* session -> ids of the requests that wait in it
    call,           \* caller -> its request
    frames          \* requests sent to the connector and not answered

sessionVars == <<allowed, admitted, opened, registered, phase, replaces, heard, swept>>
gatewayVars == <<sessionVars, closed, pending, call, frames>>

Sessions == 1 .. MaxSessions
Idle == [at |-> "idle", session |-> 0, id |-> 0, event |-> "none"]

GatewayInit ==
    /\ allowed = TRUE /\ admitted = 0 /\ opened = 0 /\ registered = 0
    /\ phase = [s \in Sessions |-> "none"]
    /\ replaces = [s \in Sessions |-> 0]
    /\ closed = {} /\ heard = {} /\ swept = 0
    /\ pending = [s \in Sessions |-> {}]
    /\ call = [c \in Callers |-> Idle]
    /\ frames = {}

\* Mutant of NewId: the smallest number no request waits under.
NewIdUnlessWaiting == CHOOSE id \in Ids : \A s \in Sessions : id \notin pending[s]

\* next(self._ids): an id that was never given; here, that nothing mentions.
IsNew(id) ==
    /\ \A f \in frames : f.id # id
    /\ \A c \in Callers : call[c].at = "waiting" => call[c].id # id
NewId == CHOOSE id \in Ids : IsNew(id)

\* _Session.close: nobody waits in it any more, and everybody who did is told.
Closing(s) ==
    /\ closed' = closed \cup {s}
    /\ pending' = [pending EXCEPT ![s] = {}]
    /\ call' = [c \in Callers |-> IF call[c].session = s /\ call[c].id \in pending[s]
                                  THEN [call[c] EXCEPT !.event = "dropped"] ELSE call[c]]

\* The request of c is over.  The connector may still answer what it was sent, of at most
\* MaxLate such requests.
Return(c) ==
    LET own == {f \in frames : f.caller = c /\ ~f.old}
        late == {f \in frames : f.old}
    IN  /\ call' = [call EXCEPT ![c] = Idle]
        /\ frames' = (frames \ own) \cup
               (IF Cardinality(late) < MaxLate THEN {[f EXCEPT !.old = TRUE] : f \in own} ELSE {})

------------------------------------------------------------------------------
(* Requests. *)

\* transport.send: the session registered now; with none, the caller is told so at once.
Look(c) ==
    /\ call[c].at = "idle" /\ registered # 0
    /\ call' = [call EXCEPT ![c] = [Idle EXCEPT !.at = "looked", !.session = registered]]
    /\ UNCHANGED <<sessionVars, closed, pending, frames>>

\* Mutant of Ask: whether the session is closed is not looked at.
AskAnyway(c) ==
    LET s == call[c].session IN
    /\ call[c].at = "looked"
    /\ call' = [call EXCEPT ![c].at = "waiting", ![c].id = NewId]
    /\ pending' = [pending EXCEPT ![s] = @ \cup {NewId}]
    /\ frames' = frames \cup {[session |-> s, id |-> NewId, caller |-> c, old |-> FALSE]}
    /\ UNCHANGED <<sessionVars, closed>>

\* request: it registers in that session, unless that is closed by now, and is sent.
Ask(c) ==
    LET s == call[c].session IN
    /\ call[c].at = "looked"
    /\ \/ /\ s \in closed
          /\ call' = [call EXCEPT ![c] = Idle]
          /\ UNCHANGED <<pending, frames>>
       \/ /\ s \notin closed /\ \E id \in Ids : IsNew(id)
          /\ call' = [call EXCEPT ![c].at = "waiting", ![c].id = NewId]
          /\ pending' = [pending EXCEPT ![s] = @ \cup {NewId}]
          /\ frames' = frames \cup {[session |-> s, id |-> NewId, caller |-> c, old |-> FALSE]}
    /\ UNCHANGED <<sessionVars, closed>>

\* resolve: the session's stream brings an answer.  Whoever waits under its id in that
\* session has it; if nobody does, it came late and is discarded.
Resolve(s) ==
    \E f \in frames :
        /\ f.session = s /\ s \in heard
        /\ frames' = frames \ {f}
        /\ pending' = [pending EXCEPT ![s] = @ \ {f.id}]
        /\ call' = [c \in Callers |->
               IF f.id \in pending[s] /\ call[c].session = s /\ call[c].id = f.id
               THEN [call[c] EXCEPT !.event = IF f.caller = c /\ ~f.old THEN "answer" ELSE "foreign"]
               ELSE call[c]]
        /\ UNCHANGED <<sessionVars, closed>>

\* The wait ends without an event: the request takes its id back.
TimeOut(c) ==
    /\ call[c].at = "waiting" /\ call[c].event = "none"
    /\ pending' = [pending EXCEPT ![call[c].session] = @ \ {call[c].id}]
    /\ Return(c)
    /\ UNCHANGED <<sessionVars, closed>>

\* The event is set: the answer is returned, or the loss of the session raised.
Wake(c) ==
    /\ call[c].at = "waiting" /\ call[c].event # "none"
    /\ Return(c)
    /\ UNCHANGED <<sessionVars, closed, pending>>

------------------------------------------------------------------------------
(* Sessions. *)

\* _open: a stream whose identity is allowed ...
Admit ==
    /\ allowed /\ opened + admitted < MaxSessions
    /\ admitted' = admitted + 1
    /\ UNCHANGED <<allowed, opened, registered, phase, replaces, heard, swept, closed, pending, call, frames>>

\* ... takes the place of the session registered before, whenever its thread gets there ...
Register ==
    /\ admitted > 0
    /\ admitted' = admitted - 1
    /\ opened' = opened + 1 /\ registered' = opened + 1
    /\ phase' = [phase EXCEPT ![opened + 1] = "opening"]
    /\ replaces' = [replaces EXCEPT ![opened + 1] = registered]
    /\ UNCHANGED <<allowed, heard, swept, closed, pending, call, frames>>

\* ... closes that one, and is served and read from then on.
Serve(s) ==
    /\ phase[s] = "opening"
    /\ \/ replaces[s] # 0 /\ Closing(replaces[s])
       \/ replaces[s] = 0 /\ UNCHANGED <<closed, pending, call>>
    /\ phase' = [phase EXCEPT ![s] = "serving"]
    /\ heard' = heard \cup {s}
    /\ UNCHANGED <<allowed, admitted, opened, registered, replaces, swept, frames>>

\* read: the stream ends or breaks, and with it what the connector was still to answer.
Break(s) ==
    /\ s \in heard
    /\ heard' = heard \ {s}
    /\ Closing(s)
    /\ frames' = {f \in frames : f.session # s}
    /\ UNCHANGED <<allowed, admitted, opened, registered, phase, replaces, swept>>

\* Mutant of Leave: the identity is unregistered, whichever session holds it.
LeaveForAll(s) ==
    /\ phase' = [phase EXCEPT ![s] = "over"]
    /\ Closing(s)
    /\ registered' = 0
    /\ UNCHANGED <<allowed, admitted, opened, replaces, heard, swept, frames>>


\* The handler's finally: it closes its session and unregisters it, and no other.
Leave(s) ==
    /\ phase' = [phase EXCEPT ![s] = "over"]
    /\ Closing(s)
    /\ registered' = IF registered = s THEN 0 ELSE registered
    /\ UNCHANGED <<allowed, admitted, opened, replaces, heard, swept, frames>>

\* The handler finds the session closed, or the stream is given up under it.
EndServe(s) == phase[s] = "serving" /\ s \in closed /\ Leave(s)
Abandon(s) == phase[s] = "serving" /\ s \notin closed /\ Leave(s)

\* The registry revokes the identity ...
Revoke ==
    /\ allowed /\ allowed' = FALSE
    /\ UNCHANGED <<admitted, opened, registered, phase, replaces, heard, swept, closed, pending, call, frames>>

\* ... and lets it in again: it enrols once more, or a renewal under way writes back the record
\* it read before the revocation.
Reinstate ==
    /\ ~allowed /\ allowed' = TRUE
    /\ UNCHANGED <<admitted, opened, registered, phase, replaces, heard, swept, closed, pending, call, frames>>

\* _sweep: the session of an identity that is not allowed any more is picked ...
Sweep ==
    /\ ~allowed /\ registered # 0 /\ swept = 0
    /\ swept' = registered
    /\ UNCHANGED <<allowed, admitted, opened, registered, phase, replaces, heard, closed, pending, call, frames>>

\* ... and closed after the lock is released, whatever is registered by then.
CloseSwept ==
    /\ swept # 0 /\ swept' = 0
    /\ Closing(swept)
    /\ UNCHANGED <<allowed, admitted, opened, registered, phase, replaces, heard, frames>>

GatewayNext ==
    \/ \E c \in Callers : Look(c) \/ Ask(c) \/ TimeOut(c) \/ Wake(c)
    \/ \E s \in Sessions : Resolve(s) \/ Serve(s) \/ Break(s) \/ EndServe(s) \/ Abandon(s)
    \/ Admit \/ Register \/ Revoke \/ Reinstate \/ Sweep \/ CloseSwept

\* Threads run, waits end, and the sweep comes round.  The connector need not answer, and
\* streams need neither open nor end.
GatewayFairness ==
    /\ \A c \in Callers :
          WF_gatewayVars(Ask(c)) /\ WF_gatewayVars(TimeOut(c)) /\ WF_gatewayVars(Wake(c))
    /\ \A s \in Sessions : WF_gatewayVars(Serve(s)) /\ WF_gatewayVars(EndServe(s))
    /\ WF_gatewayVars(Register) /\ WF_gatewayVars(Sweep) /\ WF_gatewayVars(CloseSwept)
GatewaySpec == GatewayInit /\ [][GatewayNext]_gatewayVars /\ GatewayFairness

------------------------------------------------------------------------------
(* Properties. *)

Calls ==
    [at : {"idle", "looked", "waiting"}, session : 0 .. MaxSessions, id : Ids \cup {0},
     event : {"none", "answer", "foreign", "dropped"}]

Frames == [session : Sessions, id : Ids, caller : Callers, old : BOOLEAN]

\* Types; a session is registered, replaced, closed or waited in only once it was opened.
GatewayTypeOK ==
    /\ allowed \in BOOLEAN /\ admitted \in Nat
    /\ opened \in 0 .. MaxSessions /\ opened + admitted <= MaxSessions
    /\ registered \in 0 .. opened
    /\ phase \in [Sessions -> {"none", "opening", "serving", "over"}]
    /\ \A s \in Sessions : phase[s] = "none" <=> s > opened
    /\ replaces \in [Sessions -> 0 .. MaxSessions] /\ \A s \in Sessions : replaces[s] < s
    /\ heard \subseteq 1 .. opened
    /\ closed \subseteq 1 .. opened
    /\ swept \in 0 .. opened
    /\ pending \in [Sessions -> SUBSET Ids]
    /\ call \in [Callers -> Calls]
    /\ frames \subseteq Frames

\* Whoever waits without an event waits in an open session, under an id of its own there, so
\* an answer finds it, or the end of the session does; and no id stays behind.
NobodyForgotten ==
    /\ \A s \in Sessions :
          pending[s] = {call[c].id : c \in {d \in Callers :
              call[d].at = "waiting" /\ call[d].session = s /\ call[d].event = "none"}}
    /\ \A s \in closed : pending[s] = {}
    /\ \A c, d \in Callers : call[c].at = "waiting" /\ call[d].at = "waiting" /\ call[c].id = call[d].id => c = d

\* No request is given the answer of another, however late that one comes.
NoForeignAnswer == \A c \in Callers : call[c].event # "foreign"

\* Requests go to the newest session as long as it is served, and to none after it: an older
\* one that ends late takes nothing with it.  An older one still served is closed, or about to
\* be by the one that replaced it.
NewestServes ==
    /\ registered # 0 => registered = opened
    /\ opened # 0 => (registered = opened <=> phase[opened] \in {"opening", "serving"})
    /\ \A s \in 1 .. opened - 1 :
          phase[s] = "serving" => s \in closed \/ \E n \in Sessions : phase[n] = "opening" /\ replaces[n] = s

==============================================================================
