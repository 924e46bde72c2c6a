--------------------------- MODULE TaskController ---------------------------
(***************************************************************************)
(* utils/controller.ts of emulator-service with the session table of       *)
(* utils/session-manager.ts; satellite-emulator-service has the same logic *)
(* in files of the same names.  A task is one call of _run: it waits for   *)
(* its turn, gets the session of its node, writes the command to the       *)
(* node's worker and waits for the result the worker sends back.           *)
(*                                                                         *)
(* JavaScript runs one callback at a time.  A step is the code between two *)
(* awaits, or one 'data' event; a promise that is resolved continues       *)
(* before the next event.  A stream delivers its bytes in order and may    *)
(* cut them anywhere: a result is a begin mark and an end mark, delivered  *)
(* in one event or in two.                                                 *)
(*                                                                         *)
(* A task stands for its id.  Sessions are named by the task that opened   *)
(* them, for there is nothing else to tell two shells of a node apart.     *)
(***************************************************************************)
EXTENDS Naturals, Sequences

CONSTANTS
  Tasks,      (* calls of _run *)
  Nodes,      (* containers *)
  NodeOf(_),  (* the node of a task *)
  Nothing,    (* no session, or an empty buffer *)
  MaxFaults   (* bound: failures to get a session, and sessions that end *)

ASSUME ControllerAssumption ==
  /\ Nothing \notin Tasks
  /\ \A t \in Tasks : NodeOf(t) \in Nodes
  /\ MaxFaults \in Nat

VARIABLES
  pc,          (* where a call of _run is *)
  unresolved,  (* keys of _unresolvedPromises *)
  pending,     (* _pendingTasks *)
  sessions,    (* _sessions of the session manager, by node *)
  opened,      (* sessions opened so far *)
  writable,    (* those whose stream is writable *)
  inbox,       (* commands written to a session and not yet executed *)
  output,      (* marks the worker has written and the stream not delivered *)
  buffer,      (* _messageBuffer: the task of an unfinished result, by node *)
  woken,       (* history: tasks another task woke *)
  broken,      (* history: a task that was woken failed before it ran *)
  faults

table == <<sessions, opened, writable>>
streams == <<inbox, output, buffer>>
vars == <<pc, unresolved, pending, table, streams, woken, broken, faults>>

-----------------------------------------------------------------------------

Init ==
  /\ pc = [t \in Tasks |-> "new"]
  /\ unresolved = {}
  /\ pending = <<>>
  /\ sessions = [n \in Nodes |-> Nothing]
  /\ opened = {}
  /\ writable = {}
  /\ inbox = [s \in Tasks |-> <<>>]
  /\ output = [s \in Tasks |-> <<>>]
  /\ buffer = [n \in Nodes |-> Nothing]
  /\ woken = {}
  /\ broken = FALSE
  /\ faults = 0

-----------------------------------------------------------------------------
(* _run *)

\* _wait: a task goes on at once when no promise is unresolved.
Run(t) ==
  /\ pc[t] = "new"
  /\ IF unresolved = {}
     THEN /\ pc' = [pc EXCEPT ![t] = "resolving"]
          /\ UNCHANGED pending
     ELSE /\ pc' = [pc EXCEPT ![t] = "waiting"]
          /\ pending' = Append(pending, t)
  /\ UNCHANGED <<unresolved, table, streams, woken, broken, faults>>

\* The command is written and the promise stored, in one callback.
Send(t, session) ==
  /\ inbox' = [inbox EXCEPT ![session] = Append(@, t)]
  /\ unresolved' = unresolved \cup {t}
  /\ pc' = [pc EXCEPT ![t] = "running"]

\* getSession after the node's id is resolved: a writable session is taken
\* from the table, otherwise one is opened.
FindSession(t) ==
  LET session == sessions[NodeOf(t)]
  IN  /\ pc[t] = "resolving"
      /\ IF session \in writable
         THEN Send(t, session)
         ELSE /\ pc' = [pc EXCEPT ![t] = "opening"]
              /\ UNCHANGED <<inbox, unresolved>>
      /\ UNCHANGED <<pending, table, output, buffer, woken, broken, faults>>

\* openSession answers: the table takes the new session, the listener is
\* attached to it and the command is written.
SessionOpens(t) ==
  /\ pc[t] = "opening"
  /\ sessions' = [sessions EXCEPT ![NodeOf(t)] = t]
  /\ opened' = opened \cup {t}
  /\ writable' = writable \cup {t}
  /\ Send(t, t)
  /\ UNCHANGED <<pending, output, buffer, woken, broken, faults>>

Failure ==
  /\ faults < MaxFaults
  /\ faults' = faults + 1

\* The node is unknown or its shell cannot be opened: _run rejects.
GetSessionFails(t) ==
  /\ pc[t] \in {"resolving", "opening"}
  /\ Failure
  /\ pc' = [pc EXCEPT ![t] = "failed"]
  /\ broken' = (broken \/ t \in woken)
  /\ UNCHANGED <<unresolved, pending, table, streams, woken>>

-----------------------------------------------------------------------------
(* Workers and streams *)

\* Every command a session has been given, in order.
WorkerAnswers(s) ==
  /\ inbox[s] # <<>>
  /\ inbox' = [inbox EXCEPT ![s] = Tail(@)]
  /\ output' = [output EXCEPT ![s] =
                  @ \o <<[mark |-> "begin", task |-> Head(inbox[s])],
                         [mark |-> "end", task |-> Head(inbox[s])]>>]
  /\ UNCHANGED <<pc, unresolved, pending, table, buffer, woken, broken, faults>>

\* The container stops: commands and results under way are lost.
SessionEnds(s) ==
  /\ s \in writable
  /\ Failure
  /\ writable' = writable \ {s}
  /\ inbox' = [inbox EXCEPT ![s] = <<>>]
  /\ output' = [output EXCEPT ![s] = <<>>]
  /\ UNCHANGED <<pc, unresolved, pending, sessions, opened, buffer, woken, broken>>

\* Seeded fault: the callback returns the result and wakes nobody.
ResolveWakesNobody(t) ==
  /\ unresolved' = unresolved \ {t}
  /\ pc' = IF t \in unresolved THEN [pc EXCEPT ![t] = "returned"] ELSE pc
  /\ UNCHANGED <<pending, woken>>

\* A complete result of task t: its promise is resolved, which wakes the first
\* pending task.  A result nobody waits for is dropped.
Resolve(t) ==
  IF t \notin unresolved
  THEN UNCHANGED <<unresolved, pc, pending, woken>>
  ELSE /\ unresolved' = unresolved \ {t}
       /\ IF pending = <<>>
          THEN /\ pc' = [pc EXCEPT ![t] = "returned"]
               /\ UNCHANGED <<pending, woken>>
          ELSE /\ pc' = [pc EXCEPT ![t] = "returned", ![Head(pending)] = "resolving"]
               /\ pending' = Tail(pending)
               /\ woken' = woken \cup {Head(pending)}

NoResult == UNCHANGED <<unresolved, pc, pending, woken>>

Deliver(s, k) ==
  /\ Len(output[s]) >= k
  /\ output' = [output EXCEPT ![s] = SubSeq(@, k + 1, Len(@))]
  /\ UNCHANGED <<table, inbox, broken, faults>>

\* Seeded fault: what follows an unfinished begin mark is not kept.
DataBeginForgotten(s) ==
  /\ Deliver(s, 1)
  /\ Head(output[s]).mark = "begin"
  /\ UNCHANGED buffer
  /\ NoResult

\* The first part of a result: it is kept, and an unfinished one discarded.
DataBegin(s) ==
  /\ Deliver(s, 1)
  /\ Head(output[s]).mark = "begin"
  /\ buffer' = [buffer EXCEPT ![NodeOf(s)] = Head(output[s]).task]
  /\ NoResult

\* The last part of a result.  Without a beginning it is noise.  When the
\* beginning is of another result the text between the marks does not parse,
\* unless the cut fell just before the end mark.
DataEnd(s) ==
  LET began == buffer[NodeOf(s)]
  IN  /\ Deliver(s, 1)
      /\ Head(output[s]).mark = "end"
      /\ buffer' = [buffer EXCEPT ![NodeOf(s)] = Nothing]
      /\ \/ began # Nothing /\ Resolve(began)
         \/ began # Head(output[s]).task /\ NoResult

\* A whole result in one event, after whatever was unfinished.
DataWhole(s) ==
  /\ Deliver(s, 2)
  /\ Head(output[s]).mark = "begin"
  /\ buffer' = [buffer EXCEPT ![NodeOf(s)] = Nothing]
  /\ Resolve(Head(output[s]).task)

-----------------------------------------------------------------------------

GetSession(t) == FindSession(t) \/ SessionOpens(t)

Stream(s) == WorkerAnswers(s) \/ DataBegin(s) \/ DataEnd(s) \/ DataWhole(s)

Next ==
  \/ \E t \in Tasks : Run(t) \/ GetSession(t) \/ GetSessionFails(t)
  \/ \E s \in Tasks : Stream(s) \/ SessionEnds(s)

Spec == Init /\ [][Next]_vars

\* Docker answers, workers execute what they are given and streams deliver what
\* was written; no call and no failure has to come.
Fairness ==
  /\ \A t \in Tasks : WF_vars(GetSession(t))
  /\ \A s \in Tasks : WF_vars(Stream(s))

FairSpec == Spec /\ Fairness

-----------------------------------------------------------------------------
(* Properties *)

Marks == [mark : {"begin", "end"}, task : Tasks]
Elements(seq) == {seq[i] : i \in DOMAIN seq}

\* Type invariant: every variable holds what the code can put there; the two
\* lists hold exactly the tasks that await the one or the other.
TypeOK ==
  /\ pc \in [Tasks -> {"new", "waiting", "resolving", "opening", "running", "returned", "failed"}]
  /\ unresolved = {t \in Tasks : pc[t] = "running"}
  /\ pending \in Seq(Tasks)
  /\ Elements(pending) = {t \in Tasks : pc[t] = "waiting"}
  /\ \A i, j \in DOMAIN pending : pending[i] = pending[j] => i = j
  /\ sessions \in [Nodes -> Tasks \cup {Nothing}]
  /\ writable \subseteq opened
  /\ opened \subseteq Tasks
  /\ inbox \in [Tasks -> Seq(Tasks)]
  /\ output \in [Tasks -> Seq(Marks)]
  /\ buffer \in [Nodes -> Tasks \cup {Nothing}]
  /\ woken \subseteq Tasks
  /\ broken \in BOOLEAN
  /\ faults \in Nat

\* A task that waits will be woken: as long as one waits, some task has a promise
\* unresolved, or was itself woken and is getting its session, and each of these
\* wakes one more (controller.ts:162-164).  Only a woken task that fails to get a
\* session breaks the chain.
NoLostWakeup ==
  pending # <<>> /\ ~broken =>
    \/ unresolved # {}
    \/ \E t \in woken : pc[t] \in {"resolving", "opening"}

\* Sessions the table does not know although their streams are open.
Orphans == writable \ {sessions[n] : n \in Nodes}

\* Every task returns or fails, however results are cut and whoever waits for
\* whom, as long as no session ends, no node has two sessions open at once and
\* no woken task fails.  In those three cases a result can be lost and all later
\* tasks wait for ever: there is no timeout.
EveryTaskReturns ==
  \A t \in Tasks :
    (pc[t] # "new")
      ~> \/ pc[t] \in {"returned", "failed"}
         \/ broken \/ writable # opened \/ Orphans # {}
=============================================================================
