----------------------------- MODULE CustomRun ------------------------------
(***************************************************************************)
(* Custom-code runs (execute_custom in cli/src/commands/run.rs): `qt run'  *)
(* creates a run in its workspace, finds or starts the local HTTP server,  *)
(* runs the user's command against it, and reports the end of the run      *)
(* through it.  Every process uses the one address QUANTILES_BASE_URL, so  *)
(* processes share whichever server is up, and that server writes the      *)
(* workspace of the process that started it.                               *)
(*                                                                         *)
(* A request is answered in one step, except the one that ends a run: its  *)
(* handler commits first and flushes the metrics after.                    *)
(***************************************************************************)
EXTENDS Integers, FiniteSets

CONSTANTS
    Proc,        \* `qt run' and `qt resume' processes
    Workspace,
    Home,        \* [Proc -> the workspace it runs in]
    Metric,      \* metric points a command can emit
    MaxRun,      \* bound: runs per workspace
    ServeHome    \* the workspace of `qt serve', should it be up

ASSUME HomeAssumption == Home \in [Proc -> Workspace] /\ ServeHome \in Workspace
ASSUME SizeAssumption == MaxRun \in Nat

QtServe == "qt serve"
Nobody == "nobody"
ASSUME OwnerAssumption == QtServe \notin Proc /\ Nobody \notin Proc

RunId == 1..MaxRun

VARIABLES
    runs,        \* [Workspace -> [RunId -> status in the workspace's database]]
    files,       \* [Workspace -> [RunId -> points in the run's metrics file]]
    owner,       \* the process whose server holds the address
    buffer,      \* [RunId -> points in the memory of that server]
    pc,          \* [Proc -> where execute_custom stands]
    id,          \* [Proc -> the run it executes, 0 before there is one]
    thread,      \* [Proc -> its background server thread]
    child,       \* [Proc -> the user's command]
    acked,       \* [Proc -> points its command emitted and got an answer for]
    shared       \* history: [Workspace -> runs resumed while a process was at work on them]

vars == <<runs, files, owner, buffer, pc, id, thread, child, acked, shared>>
stores == <<runs, files>>
server == <<owner, buffer>>

RunStatus == {"absent", "running", "completed", "failed"}
Nothing == [r \in RunId |-> {}]

TypeOK ==
    /\ runs \in [Workspace -> [RunId -> RunStatus]]
    /\ files \in [Workspace -> [RunId -> SUBSET Metric]]
    /\ owner \in Proc \cup {QtServe, Nobody}
    /\ buffer \in [RunId -> SUBSET Metric]
    /\ pc \in [Proc -> {"idle", "resuming", "probing", "health", "waiting", "flushing",
                        "refused", "stopping", "exited", "error", "crashed"}]
    /\ id \in [Proc -> 0..MaxRun]
    /\ thread \in [Proc -> {"none", "starting", "bound", "up", "over"}]
    /\ child \in [Proc -> {"none", "working", "success", "failure"}]
    /\ acked \in [Proc -> SUBSET Metric]
    /\ shared \in [Workspace -> SUBSET RunId]

Init ==
    /\ runs = [w \in Workspace |-> [r \in RunId |-> "absent"]]
    /\ files = [w \in Workspace |-> Nothing]
    /\ owner \in {QtServe, Nobody}
    /\ buffer = Nothing
    /\ pc = [p \in Proc |-> "idle"]
    /\ id = [p \in Proc |-> 0]
    /\ thread = [p \in Proc |-> "none"]
    /\ child = [p \in Proc |-> "none"]
    /\ acked = [p \in Proc |-> {}]
    /\ shared = [w \in Workspace |-> {}]

-----------------------------------------------------------------------------
Over == {"exited", "error", "crashed"}
Alive(p) == pc[p] \notin Over \cup {"idle"}

AtWork(w, r) == \E q \in Proc : Alive(q) /\ Home[q] = w /\ id[q] = r

Goto(p, label) == pc' = [pc EXCEPT ![p] = label]

(* A connection is accepted from the moment the address is bound, a request answered
   once the server is up. *)
Reachable == owner # Nobody
Answering == owner = QtServe \/ \E q \in Proc : owner = q /\ thread[q] = "up"
ServerHome == IF owner = QtServe THEN ServeHome ELSE Home[owner]

(* A process ends, and the server it holds with it: requests in progress get no
   answer.  Its command is not killed. *)
End(p, label) ==
    /\ pc' = [q \in Proc |-> IF q = p THEN label
                             ELSE IF owner = p /\ pc[q] = "flushing" THEN "refused"
                             ELSE pc[q]]
    /\ thread' = [thread EXCEPT ![p] = IF @ = "none" THEN "none" ELSE "over"]
    /\ IF owner = p
       THEN owner' = Nobody /\ buffer' = Nothing
       ELSE UNCHANGED server

-----------------------------------------------------------------------------
(* `qt run' and `qt resume' write their own workspace directly. *)

CreateRun(p) ==
    /\ pc[p] = "idle"
    /\ \E r \in RunId :
        /\ runs[Home[p]][r] = "absent"
        /\ \A q \in 1..r-1 : runs[Home[p]][q] # "absent"
        /\ runs' = [runs EXCEPT ![Home[p]][r] = "running"]
        /\ id' = [id EXCEPT ![p] = r]
    /\ Goto(p, "probing")
    /\ UNCHANGED <<files, server, thread, child, acked, shared>>

(* Any run that is not completed can be resumed, at work in another process or not ... *)
FindRun(p) ==
    /\ pc[p] = "idle"
    /\ \E r \in RunId :
        /\ runs[Home[p]][r] \in {"running", "failed"}
        /\ id' = [id EXCEPT ![p] = r]
        /\ shared' = [shared EXCEPT ![Home[p]] = IF AtWork(Home[p], r) THEN @ \cup {r} ELSE @]
    /\ Goto(p, "resuming")
    /\ UNCHANGED <<stores, server, thread, child, acked>>

(* ... and is set running whatever has become of it since it was read. *)
ResumeRun(p) ==
    /\ pc[p] = "resuming"
    /\ runs' = [runs EXCEPT ![Home[p]][id[p]] = "running"]
    /\ Goto(p, "probing")
    /\ UNCHANGED <<files, server, id, thread, child, acked, shared>>

(* A server somebody else started is used, whatever workspace it serves. *)
Probe(p) ==
    /\ pc[p] = "probing"
    /\ thread' = [thread EXCEPT ![p] = IF Reachable THEN "none" ELSE "starting"]
    /\ Goto(p, "health")
    /\ UNCHANGED <<stores, server, id, child, acked, shared>>

(* The background thread binds the address, unless it is taken by now. *)
StartServer(p) ==
    /\ Alive(p) /\ thread[p] = "starting"
    /\ IF Reachable
       THEN thread' = [thread EXCEPT ![p] = "over"] /\ UNCHANGED server
       ELSE thread' = [thread EXCEPT ![p] = "bound"] /\ owner' = p /\ buffer' = Nothing
    /\ UNCHANGED <<stores, pc, id, child, acked, shared>>

(* Then it opens the database of its workspace ... *)
Serve(p) ==
    /\ Alive(p) /\ thread[p] = "bound"
    /\ thread' = [thread EXCEPT ![p] = "up"]
    /\ UNCHANGED <<stores, server, pc, id, child, acked, shared>>

(* ... or fails to, and the address is free again. *)
ServerFails(p) ==
    /\ Alive(p) /\ thread[p] = "bound"
    /\ thread' = [thread EXCEPT ![p] = "over"]
    /\ owner' = Nobody
    /\ UNCHANGED <<stores, buffer, pc, id, child, acked, shared>>

SpawnCommand(p) ==
    /\ pc[p] = "health" /\ Reachable
    /\ Goto(p, "waiting")
    /\ child' = [child EXCEPT ![p] = "working"]
    /\ UNCHANGED <<stores, server, id, thread, acked, shared>>

(* The run cannot be resumed, no server within five seconds, or a command that does not
   start.  Mutant: the wait has no deadline. *)
SpawnFails(p) ==
    /\ pc[p] = "health" /\ Reachable
    /\ End(p, "error")
    /\ UNCHANGED <<stores, id, child, acked, shared>>
GiveUp(p) ==
    /\ pc[p] \in {"resuming", "probing", "health"}
    /\ End(p, "error")
    /\ UNCHANGED <<stores, id, child, acked, shared>>

-----------------------------------------------------------------------------
(* The user's command.  It reaches for run id[p] in whatever workspace the server
   has; emit does not look whether there is such a run. *)

Served(p) == Answering /\ runs[ServerHome][id[p]] # "absent"
Refused(p) == ~Reachable \/ (Answering /\ ~Served(p))

EmitMetric(p, m) ==
    /\ child[p] = "working" /\ Answering
    /\ buffer' = [buffer EXCEPT ![id[p]] = @ \cup {m}]
    /\ acked' = [acked EXCEPT ![p] = @ \cup {m}]
    /\ UNCHANGED <<stores, owner, pc, id, thread, child, shared>>

(* It succeeds; or it fails, at an error of its own or at a request that does. *)
CommandEnds(p) ==
    /\ child[p] = "working"
    /\ \E result \in {"success", "failure"} : child' = [child EXCEPT ![p] = result]
    /\ UNCHANGED <<stores, server, pc, id, thread, acked, shared>>

-----------------------------------------------------------------------------
(* The end of the run is reported to the server: its handler commits ... *)

Reported(p) == IF child[p] = "success" THEN "completed" ELSE "failed"

(* Mutant: the failure of the command is only printed. *)
ReportSuccess(p) ==
    /\ pc[p] = "waiting" /\ child[p] \in {"success", "failure"}
    /\ Served(p)
    /\ runs' = [runs EXCEPT ![ServerHome][id[p]] =
                   IF child[p] = "success" THEN "completed" ELSE @]
    /\ Goto(p, "flushing")
    /\ UNCHANGED <<files, server, id, thread, child, acked, shared>>

ReportEnd(p) ==
    /\ pc[p] = "waiting" /\ child[p] \in {"success", "failure"}
    /\ Served(p)
    /\ runs' = [runs EXCEPT ![ServerHome][id[p]] = Reported(p)]
    /\ Goto(p, "flushing")
    /\ UNCHANGED <<files, server, id, thread, child, acked, shared>>

(* ... and then flushes what it has buffered, over what the file had.  Mutant: a file
   that is there is left alone. *)
FlushMetricsOnce(p) ==
    /\ pc[p] = "flushing"
    /\ files' = [files EXCEPT ![ServerHome][id[p]] = IF @ = {} THEN buffer[id[p]] ELSE @]
    /\ buffer' = [buffer EXCEPT ![id[p]] = {}]
    /\ Goto(p, "stopping")
    /\ UNCHANGED <<runs, owner, id, thread, child, acked, shared>>

FlushMetrics(p) ==
    /\ pc[p] = "flushing"
    /\ files' = [files EXCEPT ![ServerHome][id[p]] =
                    IF buffer[id[p]] = {} THEN @ ELSE buffer[id[p]]]
    /\ buffer' = [buffer EXCEPT ![id[p]] = {}]
    /\ Goto(p, "stopping")
    /\ UNCHANGED <<runs, owner, id, thread, child, acked, shared>>

(* The file cannot be written: what was buffered is gone, and the error is answered. *)
FlushFails(p) ==
    /\ pc[p] = "flushing"
    /\ buffer' = [buffer EXCEPT ![id[p]] = {}]
    /\ Goto(p, "refused")
    /\ UNCHANGED <<stores, owner, id, thread, child, acked, shared>>

(* No server, no such run, an error or no answer: the process leaves its run as it
   is.  Mutant: the error of the request is ignored. *)
ReportIgnored(p) ==
    /\ \/ pc[p] = "refused"
       \/ pc[p] = "waiting" /\ child[p] \in {"success", "failure"} /\ Refused(p)
    /\ Goto(p, "stopping")
    /\ UNCHANGED <<stores, server, id, thread, child, acked, shared>>
ReportFails(p) ==
    /\ \/ pc[p] = "refused"
       \/ pc[p] = "waiting" /\ child[p] \in {"success", "failure"} /\ Refused(p)
    /\ End(p, "error")
    /\ UNCHANGED <<stores, id, child, acked, shared>>

(* A server this process has started is shut down and waited for: it first answers
   the requests it has taken. *)
Exit(p) ==
    /\ pc[p] = "stopping"
    /\ thread[p] \notin {"starting", "bound"}
    /\ owner = p => \A q \in Proc : pc[q] # "flushing"
    /\ End(p, "exited")
    /\ UNCHANGED <<stores, id, child, acked, shared>>

Crash(p) ==
    /\ Alive(p)
    /\ End(p, "crashed")
    /\ UNCHANGED <<stores, id, child, acked, shared>>

-----------------------------------------------------------------------------
Proceed(p) ==
    \/ ResumeRun(p) \/ Probe(p)
    \/ StartServer(p) \/ Serve(p) \/ ServerFails(p) \/ SpawnCommand(p) \/ GiveUp(p)
    \/ \E m \in Metric : EmitMetric(p, m)
    \/ CommandEnds(p)
    \/ ReportEnd(p) \/ FlushMetrics(p) \/ FlushFails(p) \/ ReportFails(p) \/ Exit(p)

Next == \E p \in Proc : CreateRun(p) \/ FindRun(p) \/ Proceed(p) \/ Crash(p)
Spec == Init /\ [][Next]_vars

(* A started process and its threads are scheduled, its requests are answered or
   refused, and its command comes to an end. *)
FairSpec == Spec /\ \A p \in Proc : WF_vars(Proceed(p))

-----------------------------------------------------------------------------
(* Properties. *)

(* The types are kept, and a run is "running" only while a process that has not reported
   its end is at work on it, or because one has ended on it with an error or a crash;
   however many processes are at work on it. *)
RunsAreNotForgotten ==
    /\ TypeOK
    /\ \A w \in Workspace, r \in RunId : runs[w][r] = "running" =>
          \E p \in Proc :
              /\ Home[p] = w /\ id[p] = r
              /\ pc[p] \in {"probing", "health", "waiting", "error", "crashed"}

(* A process that exits without an error leaves its run, in the workspace it was started
   in, with the status it reports, unless a second process has been set to work on the run
   before the first one was over: that one makes it run again, between the report and the
   exit of the first. *)
ReportedStatusIsRecorded ==
    [][\A p \in Proc :
            pc[p] # "exited" /\ pc'[p] = "exited" /\ id[p] \notin shared[Home[p]] =>
                runs'[Home[p]][id[p]] = Reported(p)]_vars

(* The points of a command that succeeded, all of them answered by a server, are in the
   metrics file of its run, however often the run was resumed before, provided the server
   outlives the run: one that ends takes the points of every run it has not flushed with
   it.  And provided no two processes were at work on the run at once, of which the second
   to end overwrites the points of the first. *)
ServedMetricsAreKept ==
    owner = QtServe =>
        \A p \in Proc :
            pc[p] = "exited" /\ child[p] = "success" /\ id[p] \notin shared[Home[p]] =>
                acked[p] \subseteq files[Home[p]][id[p]]

(* Every process comes to an end, whatever becomes of the servers it relies on. *)
EveryProcessEnds == \A p \in Proc : Alive(p) ~> ~Alive(p)
=============================================================================
