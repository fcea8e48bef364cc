-------------------------- MODULE CustomRunProofs ---------------------------
(***************************************************************************)
(* Proofs about CustomRun, for any number of processes, runs and points,   *)
(* whichever processes serve and however they end.  The processes are in   *)
(* one workspace: a process that finds the server of another one reports   *)
(* the end of its run there, and then none of this holds.  Several of them *)
(* may be at work on one run: two of the theorems are about the runs that  *)
(* no process was set to work on while another one was.                    *)
(***************************************************************************)
EXTENDS CustomRun, TLAPS

OneWorkspace == \A p \in Proc : Home[p] = ServeHome

Status(r) == runs[ServeHome][r]
File(r) == files[ServeHome][r]
Unshared(r) == r \notin shared[ServeHome]

(* A process that has started has a run, which exists. *)
WorkersHaveRuns ==
    \A p \in Proc : pc[p] # "idle" => id[p] \in RunId /\ Status(id[p]) # "absent"

(* The command starts after its server and has ended before the run is reported. *)
CommandsAreAwaited ==
    \A p \in Proc :
        /\ pc[p] \in {"idle", "resuming", "probing", "health"} => child[p] = "none"
        /\ child[p] = "none" => acked[p] = {}
        /\ pc[p] \in {"flushing", "stopping", "exited"} => child[p] \in {"success", "failure"}

(* A process probes before it starts a server. *)
ServersFollowProbes ==
    \A p \in Proc : pc[p] \in {"idle", "resuming", "probing"} => thread[p] = "none"

(* A thread that has bound the address holds it; a handler runs in a server that is up. *)
ServersHoldTheAddress == \A p \in Proc : thread[p] \in {"bound", "up"} => owner = p
HandlersAreServed == (\E p \in Proc : pc[p] = "flushing") => Answering

(* What holds of every run, however many processes are at work on it. *)
CustomInv ==
    /\ TypeOK
    /\ WorkersHaveRuns
    /\ CommandsAreAwaited
    /\ ServersFollowProbes
    /\ ServersHoldTheAddress
    /\ HandlersAreServed
    /\ RunsAreNotForgotten

(* No two live processes work on a run that is not shared. *)
OneWorkerPerRun ==
    \A p, q \in Proc :
        p # q /\ Alive(p) /\ Alive(q) /\ Unshared(id[p]) => id[p] # id[q]

(* From the commit of the handler to the exit of the process nobody touches its run. *)
EndsAreRecorded ==
    \A p \in Proc : pc[p] \in {"flushing", "stopping"} /\ Unshared(id[p]) =>
        Status(id[p]) = Reported(p)

(* A run that has succeeded is not worked on any more. *)
SuccessIsFinal ==
    \A p \in Proc : pc[p] = "exited" /\ child[p] = "success" /\ Unshared(id[p]) =>
        /\ Status(id[p]) = "completed"
        /\ \A q \in Proc : Alive(q) => id[q] # id[p]

(* With a server that lasts, points are in its memory until the run is reported, and in
   the file after. *)
PointsAreKept ==
    owner = QtServe =>
        \A p \in Proc : Unshared(id[p]) =>
            /\ pc[p] \in {"resuming", "probing", "health", "waiting", "flushing"} =>
                   acked[p] \subseteq buffer[id[p]]
            /\ pc[p] = "stopping" \/ (pc[p] = "exited" /\ child[p] = "success") =>
                   acked[p] \subseteq File(id[p])

(* What holds besides of the runs that are not shared. *)
Alone == OneWorkerPerRun /\ EndsAreRecorded /\ SuccessIsFinal /\ PointsAreKept

-----------------------------------------------------------------------------
(* Every server there is serves the one workspace. *)
LEMMA OneServerHome ==
    ASSUME OneWorkspace, CustomInv, Reachable
    PROVE  ServerHome = ServeHome
BY DEF OneWorkspace, CustomInv, TypeOK, Reachable, ServerHome

LEMMA AnsweringIsReachable == Answering => Reachable
BY OwnerAssumption DEF Reachable, Answering, QtServe, Nobody

LEMMA CustomInvInit == OneWorkspace /\ Init => CustomInv /\ Alone
<1> SUFFICES ASSUME OneWorkspace, Init PROVE CustomInv /\ Alone
  OBVIOUS
<1>1. TypeOK
  BY SizeAssumption DEF Init, TypeOK, Nothing, RunStatus, RunId
<1>2. \A w \in Workspace, r \in RunId : runs[w][r] = "absent"
  BY DEF Init
<1>3. \A p \in Proc : pc[p] = "idle" /\ child[p] = "none" /\ acked[p] = {} /\ thread[p] = "none"
  BY DEF Init
<1>4. RunsAreNotForgotten
  BY <1>1, <1>2 DEF RunsAreNotForgotten
<1> QED
  BY <1>1, <1>3, <1>4
     DEF CustomInv, Alone, WorkersHaveRuns, OneWorkerPerRun, CommandsAreAwaited,
         EndsAreRecorded, SuccessIsFinal, ServersFollowProbes, ServersHoldTheAddress,
         HandlersAreServed, PointsAreKept, Alive, Over

-----------------------------------------------------------------------------
(* A process begins, on a new run or on one it finds. *)
LEMMA BeginKeeps ==
    ASSUME OneWorkspace, CustomInv, NEW p \in Proc, CreateRun(p) \/ FindRun(p)
    PROVE  CustomInv' /\ (Alone => Alone')
<1>1. PICK r \in RunId :
          /\ id' = [id EXCEPT ![p] = r]
          /\ \/ /\ CreateRun(p) /\ Status(r) = "absent"
                /\ runs' = [runs EXCEPT ![ServeHome][r] = "running"]
                /\ pc' = [pc EXCEPT ![p] = "probing"]
                /\ shared' = shared
             \/ /\ FindRun(p) /\ Status(r) \in {"running", "failed"}
                /\ runs' = runs /\ pc' = [pc EXCEPT ![p] = "resuming"]
                /\ shared' = [shared EXCEPT ![ServeHome] =
                                 IF AtWork(ServeHome, r) THEN shared[ServeHome] \cup {r}
                                 ELSE shared[ServeHome]]
  <2>1. Home[p] = ServeHome
    BY DEF OneWorkspace
  <2>2. CASE CreateRun(p)
    BY <2>1, <2>2 DEF CreateRun, Status, Goto
  <2>3. CASE FindRun(p)
    BY <2>1, <2>3 DEF FindRun, Status, stores, Goto
  <2> QED BY <2>2, <2>3
<1>2. /\ pc[p] = "idle"
      /\ files' = files /\ owner' = owner /\ buffer' = buffer /\ thread' = thread
      /\ child' = child /\ acked' = acked
  BY DEF CreateRun, FindRun, stores, server
<1>3. TypeOK /\ ServeHome \in Workspace /\ TypeOK'
  <2>1. TypeOK /\ ServeHome \in Workspace
    BY HomeAssumption DEF CustomInv
  <2>2. r \in 0..MaxRun
    BY SizeAssumption DEF RunId
  <2>3. id' \in [Proc -> 0..MaxRun]
    BY <1>1, <2>1, <2>2 DEF TypeOK
  <2>4. runs' \in [Workspace -> [RunId -> RunStatus]]
    <3>1. runs \in [Workspace -> [RunId -> RunStatus]] /\ "running" \in RunStatus
      BY <2>1 DEF TypeOK, RunStatus
    <3>2. [runs EXCEPT ![ServeHome][r] = "running"] \in [Workspace -> [RunId -> RunStatus]]
      BY <3>1
    <3> QED BY <1>1, <3>1, <3>2
  <2>5. pc' \in [Proc -> {"idle", "resuming", "probing", "health", "waiting", "flushing",
                          "refused", "stopping", "exited", "error", "crashed"}]
    BY <1>1, <2>1 DEF TypeOK
  <2>6. shared' \in [Workspace -> SUBSET RunId]
    BY <1>1, <2>1 DEF TypeOK
  <2> QED BY <1>2, <2>1, <2>3, <2>4, <2>5, <2>6 DEF TypeOK
<1>4. /\ id'[p] = r /\ \A q \in Proc : q # p => id'[q] = id[q]
      /\ pc'[p] \in {"probing", "resuming"} /\ \A q \in Proc : q # p => pc'[q] = pc[q]
      /\ runs'[ServeHome][r] # "absent"
      /\ runs'[ServeHome][r] = "running" => pc'[p] = "probing" \/ runs' = runs
      /\ \A w \in Workspace, k \in RunId :
            w # ServeHome \/ k # r => runs'[w][k] = runs[w][k]
  BY <1>1, <1>3 DEF TypeOK, Status
<1>5. WorkersHaveRuns'
  BY <1>3, <1>4 DEF CustomInv, WorkersHaveRuns, Status
<1>6. CommandsAreAwaited'
  BY <1>2, <1>4 DEF CustomInv, CommandsAreAwaited
<1>7. ServersFollowProbes' /\ ServersHoldTheAddress' /\ HandlersAreServed'
  BY <1>2, <1>4 DEF CustomInv, ServersFollowProbes, ServersHoldTheAddress, HandlersAreServed,
                    Answering
<1>8. RunsAreNotForgotten'
  <2> SUFFICES ASSUME NEW w \in Workspace, NEW k \in RunId, runs'[w][k] = "running"
               PROVE  \E q \in Proc :
                          /\ Home[q] = w /\ id'[q] = k
                          /\ pc'[q] \in {"probing", "health", "waiting", "error", "crashed"}
    BY <1>3 DEF RunsAreNotForgotten
  <2>1. CASE w = ServeHome /\ k = r /\ pc'[p] = "probing"
    BY <1>4, <2>1 DEF OneWorkspace
  <2>2. CASE ~(w = ServeHome /\ k = r /\ pc'[p] = "probing")
    <3>1. PICK q \in Proc :
              /\ Home[q] = w /\ id[q] = k
              /\ pc[q] \in {"probing", "health", "waiting", "error", "crashed"}
      BY <1>4, <2>2 DEF CustomInv, RunsAreNotForgotten
    <3>2. q # p
      BY <1>2, <3>1
    <3> QED BY <1>4, <3>1, <3>2
  <2> QED BY <2>1, <2>2
(* Other runs are shared as before, and the run begun on only if it is nobody's. *)
<1>9. /\ \A k \in RunId : k # r => (Unshared(k)' <=> Unshared(k))
      /\ Unshared(r)' => \A q \in Proc : Alive(q) => id[q] # r
  <2>1. CASE CreateRun(p) /\ Status(r) = "absent" /\ shared' = shared
    BY <2>1 DEF CustomInv, WorkersHaveRuns, Alive, Over, Unshared
  <2>2. CASE shared' = [shared EXCEPT ![ServeHome] =
                           IF AtWork(ServeHome, r) THEN shared[ServeHome] \cup {r}
                           ELSE shared[ServeHome]]
    <3>1. shared'[ServeHome] = IF AtWork(ServeHome, r) THEN shared[ServeHome] \cup {r}
                               ELSE shared[ServeHome]
      BY <1>3, <2>2 DEF TypeOK
    <3>2. \A k \in RunId : k # r => (Unshared(k)' <=> Unshared(k))
      BY <3>1 DEF Unshared
    <3>3. ASSUME Unshared(r)', NEW q \in Proc, Alive(q) PROVE id[q] # r
      <4>1. ~AtWork(ServeHome, r)
        BY <3>1, <3>3 DEF Unshared
      <4> QED BY <3>3, <4>1 DEF AtWork, OneWorkspace
    <3> QED BY <3>2, <3>3
  <2> QED BY <1>1, <2>1, <2>2
<1>10. ASSUME Alone PROVE Alone'
  <2>1. OneWorkerPerRun'
    <3> SUFFICES ASSUME NEW u \in Proc, NEW v \in Proc, u # v, Alive(u)', Alive(v)',
                        Unshared(id[u])'
                 PROVE  id'[u] # id'[v]
      BY DEF OneWorkerPerRun
    <3>1. /\ u # p => Alive(u) /\ id'[u] = id[u] /\ id[u] \in RunId
          /\ v # p => Alive(v) /\ id'[v] = id[v] /\ id[v] \in RunId
      BY <1>4 DEF Alive, Over, CustomInv, WorkersHaveRuns
    <3>2. id'[u] = r => Unshared(r)'
      BY DEF Unshared
    <3>3. CASE u = p
      BY <1>4, <1>9, <3>1, <3>2, <3>3
    <3>4. CASE u # p /\ v = p
      BY <1>4, <1>9, <3>1, <3>2, <3>4
    <3>5. CASE u # p /\ v # p /\ id[u] # r
      <4>1. Unshared(id[u])
        BY <1>9, <3>1, <3>5 DEF Unshared
      <4> QED BY <1>10, <3>1, <3>5, <4>1 DEF Alone, OneWorkerPerRun
    <3>6. CASE u # p /\ v # p /\ id[u] = r
      BY <1>9, <3>1, <3>2, <3>6
    <3> QED BY <3>3, <3>4, <3>5, <3>6
  <2>2. EndsAreRecorded'
    <3> SUFFICES ASSUME NEW q \in Proc, pc'[q] \in {"flushing", "stopping"}, Unshared(id[q])'
                 PROVE  Status(id[q])' = Reported(q)'
      BY DEF EndsAreRecorded, Status
    <3>1. q # p /\ pc'[q] = pc[q] /\ id'[q] = id[q]
      BY <1>4
    <3>2. Alive(q) /\ id[q] \in RunId
      BY <3>1 DEF Alive, Over, CustomInv, WorkersHaveRuns
    <3>3. id[q] # r
      BY <1>9, <3>1, <3>2 DEF Unshared
    <3>4. Unshared(id[q])
      BY <1>9, <3>1, <3>2, <3>3 DEF Unshared
    <3>5. Status(id[q]) = Reported(q)
      BY <1>10, <3>1, <3>4 DEF Alone, EndsAreRecorded
    <3> QED BY <1>2, <1>3, <1>4, <3>1, <3>2, <3>3, <3>5 DEF Status, Reported
  <2>3. SuccessIsFinal'
    <3> SUFFICES ASSUME NEW q \in Proc, pc'[q] = "exited", child'[q] = "success",
                        Unshared(id[q])'
                 PROVE  /\ runs'[ServeHome][id'[q]] = "completed"
                        /\ \A u \in Proc : Alive(u)' => id'[u] # id'[q]
      BY DEF SuccessIsFinal, Status
    <3>1. q # p /\ pc[q] = "exited" /\ id'[q] = id[q] /\ child[q] = "success"
      BY <1>2, <1>4
    <3>2. id[q] \in RunId /\ Unshared(id[q])
      <4>1. id[q] \in RunId
        BY <3>1 DEF CustomInv, WorkersHaveRuns
      <4>2. shared[ServeHome] \subseteq shared'[ServeHome]
        BY <1>1, <1>3 DEF TypeOK
      <4> QED BY <3>1, <4>1, <4>2 DEF Unshared
    <3>3. Status(id[q]) = "completed" /\ \A u \in Proc : Alive(u) => id[u] # id[q]
      BY <1>10, <3>1, <3>2 DEF Alone, SuccessIsFinal
    <3>4. id[q] # r
      BY <1>1, <3>3
    <3> QED BY <1>3, <1>4, <3>1, <3>2, <3>3, <3>4 DEF Status, Alive, Over
  <2>4. PointsAreKept'
    <3>1. acked[p] = {}
      BY <1>2 DEF CustomInv, CommandsAreAwaited
    <3>2. shared[ServeHome] \subseteq shared'[ServeHome]
      BY <1>1, <1>3 DEF TypeOK
    <3> QED BY <1>2, <1>4, <1>10, <3>1, <3>2 DEF Alone, PointsAreKept, File, Unshared
  <2> QED BY <2>1, <2>2, <2>3, <2>4 DEF Alone
<1> QED BY <1>3, <1>4, <1>5, <1>6, <1>7, <1>8, <1>10 DEF CustomInv

(* A process sets the run it has found running, whatever its status is by now. *)
LEMMA ResumeKeeps ==
    ASSUME OneWorkspace, CustomInv, NEW p \in Proc, ResumeRun(p)
    PROVE  CustomInv' /\ (Alone => Alone')
<1>1. /\ pc[p] = "resuming" /\ pc' = [pc EXCEPT ![p] = "probing"]
      /\ runs' = [runs EXCEPT ![ServeHome][id[p]] = "running"]
      /\ files' = files /\ owner' = owner /\ buffer' = buffer /\ id' = id
      /\ thread' = thread /\ child' = child /\ acked' = acked
      /\ shared' = shared
  BY DEF ResumeRun, OneWorkspace, Goto, server
<1>2. TypeOK /\ ServeHome \in Workspace /\ id[p] \in RunId
  BY <1>1, HomeAssumption DEF CustomInv, WorkersHaveRuns
<1>3. TypeOK'
  BY <1>1, <1>2 DEF TypeOK, RunStatus
<1>4. /\ pc'[p] = "probing" /\ \A q \in Proc : q # p => pc'[q] = pc[q]
      /\ runs'[ServeHome][id[p]] = "running"
      /\ \A w \in Workspace, k \in RunId :
            w # ServeHome \/ k # id[p] => runs'[w][k] = runs[w][k]
  BY <1>1, <1>2 DEF TypeOK
<1>5. Alive(p) /\ \A q \in Proc : Alive(q)' <=> Alive(q)
  BY <1>1, <1>4 DEF Alive, Over
<1>6. WorkersHaveRuns'
  BY <1>1, <1>2, <1>4 DEF CustomInv, WorkersHaveRuns, Status
<1>7. CommandsAreAwaited'
  BY <1>1, <1>4 DEF CustomInv, CommandsAreAwaited
<1>8. ServersFollowProbes' /\ ServersHoldTheAddress' /\ HandlersAreServed'
  BY <1>1, <1>4 DEF CustomInv, ServersFollowProbes, ServersHoldTheAddress, HandlersAreServed,
                    Answering
<1>9. RunsAreNotForgotten'
  <2> SUFFICES ASSUME NEW w \in Workspace, NEW k \in RunId, runs'[w][k] = "running"
               PROVE  \E q \in Proc :
                          /\ Home[q] = w /\ id[q] = k
                          /\ pc'[q] \in {"probing", "health", "waiting", "error", "crashed"}
    BY <1>1, <1>3 DEF RunsAreNotForgotten
  <2>1. CASE w = ServeHome /\ k = id[p]
    BY <1>4, <2>1 DEF OneWorkspace
  <2>2. CASE w # ServeHome \/ k # id[p]
    <3>1. PICK q \in Proc :
              /\ Home[q] = w /\ id[q] = k
              /\ pc[q] \in {"probing", "health", "waiting", "error", "crashed"}
      BY <1>4, <2>2 DEF CustomInv, RunsAreNotForgotten
    <3>2. q # p
      BY <1>1, <3>1
    <3> QED BY <1>4, <3>1, <3>2
  <2> QED BY <2>1, <2>2
<1>10. ASSUME Alone PROVE Alone'
  <2>1. \A q \in Proc : q # p /\ Alive(q) /\ Unshared(id[q]) => id[q] # id[p]
    BY <1>5, <1>10 DEF Alone, OneWorkerPerRun, Unshared
  <2>2. OneWorkerPerRun'
    BY <1>1, <1>5, <1>10 DEF Alone, OneWorkerPerRun, Unshared
  <2>3. EndsAreRecorded'
    <3> SUFFICES ASSUME NEW q \in Proc, pc'[q] \in {"flushing", "stopping"}, Unshared(id[q])
                 PROVE  runs'[ServeHome][id[q]] = Reported(q)
      BY <1>1 DEF EndsAreRecorded, Status, Reported, Unshared
    <3>1. q # p /\ pc[q] = pc'[q] /\ Alive(q) /\ id[q] # id[p]
      BY <1>4, <2>1 DEF Alive, Over
    <3>2. id[q] \in RunId /\ Status(id[q]) = Reported(q)
      BY <1>10, <3>1 DEF Alone, CustomInv, EndsAreRecorded, WorkersHaveRuns, Unshared
    <3> QED BY <1>2, <1>4, <3>1, <3>2 DEF Status
  <2>4. SuccessIsFinal'
    <3> SUFFICES ASSUME NEW q \in Proc, pc'[q] = "exited", child[q] = "success", Unshared(id[q])
                 PROVE  /\ runs'[ServeHome][id[q]] = "completed"
                        /\ \A u \in Proc : Alive(u) => id[u] # id[q]
      BY <1>1, <1>5 DEF SuccessIsFinal, Status, Unshared
    <3>1. pc[q] = "exited" /\ id[q] \in RunId
      BY <1>4 DEF CustomInv, WorkersHaveRuns
    <3>2. Status(id[q]) = "completed" /\ \A u \in Proc : Alive(u) => id[u] # id[q]
      BY <1>10, <3>1 DEF Alone, SuccessIsFinal, Unshared
    <3> QED BY <1>2, <1>4, <1>5, <3>1, <3>2 DEF Status
  <2>5. PointsAreKept'
    BY <1>1, <1>4, <1>10 DEF Alone, PointsAreKept, File, Unshared
  <2> QED BY <2>2, <2>3, <2>4, <2>5 DEF Alone
<1> QED BY <1>3, <1>6, <1>7, <1>8, <1>9, <1>10 DEF CustomInv

-----------------------------------------------------------------------------
(* Steps that leave runs, files, commands and points alone: one process moves on, with
   or without its server thread. *)

ServerSteps(p) == Probe(p) \/ StartServer(p) \/ Serve(p) \/ ServerFails(p)

LEMMA ServerStepsKeep ==
    ASSUME OneWorkspace, CustomInv, NEW p \in Proc, ServerSteps(p)
    PROVE  CustomInv' /\ (Alone => Alone')
<1>1. /\ runs' = runs /\ files' = files /\ id' = id /\ child' = child /\ acked' = acked
      /\ shared' = shared
      /\ pc' = pc \/ (pc[p] = "probing" /\ pc' = [pc EXCEPT ![p] = "health"])
  BY DEF ServerSteps, Probe, StartServer, Serve, ServerFails, stores, server, Goto
<1>2. TypeOK /\ TypeOK'
  BY DEF CustomInv, TypeOK, Nothing, ServerSteps, Probe, StartServer, Serve, ServerFails,
         stores, server, Goto
<1>3. \A q \in Proc : pc'[q] = pc[q] \/ (q = p /\ pc[q] = "probing" /\ pc'[q] = "health")
  BY <1>1, <1>2 DEF TypeOK
<1>4. \A q \in Proc : Alive(q)' <=> Alive(q)
  BY <1>3 DEF Alive, Over
<1>5. WorkersHaveRuns'
  BY <1>1, <1>3 DEF CustomInv, WorkersHaveRuns, Status
<1>6. CommandsAreAwaited'
  BY <1>1, <1>3 DEF CustomInv, CommandsAreAwaited
<1>7. ServersHoldTheAddress'
  <2>1. \A q \in Proc : thread[q] \in {"bound", "up"} => owner = q /\ Reachable
    BY OwnerAssumption DEF CustomInv, ServersHoldTheAddress, Reachable
  <2>2. thread \in [Proc -> {"none", "starting", "bound", "up", "over"}]
    BY <1>2 DEF TypeOK
  <2>3. CASE Probe(p)
    BY <2>1, <2>2, <2>3 DEF ServersHoldTheAddress, Probe, server
  <2>4. CASE StartServer(p)
    BY <2>1, <2>2, <2>4 DEF ServersHoldTheAddress, StartServer, server
  <2>5. CASE Serve(p)
    BY <2>1, <2>2, <2>5 DEF ServersHoldTheAddress, Serve, server
  <2>6. CASE ServerFails(p)
    BY <2>1, <2>2, <2>6 DEF ServersHoldTheAddress, ServerFails
  <2> QED BY <2>3, <2>4, <2>5, <2>6 DEF ServerSteps
<1>8. ServersFollowProbes'
  <2>1. \A q \in Proc : thread'[q] = thread[q] \/ (q = p /\ thread[p] # "none")
                                              \/ (q = p /\ pc'[p] = "health")
    <3>1. thread \in [Proc -> {"none", "starting", "bound", "up", "over"}]
      BY <1>2 DEF TypeOK
    <3>2. CASE Probe(p)
      BY <1>2, <3>1, <3>2 DEF Probe, Goto, TypeOK
    <3>3. CASE StartServer(p)
      BY <3>1, <3>3 DEF StartServer
    <3>4. CASE Serve(p) \/ ServerFails(p)
      BY <3>1, <3>4 DEF Serve, ServerFails
    <3> QED BY <3>2, <3>3, <3>4 DEF ServerSteps
  <2> QED BY <1>3, <2>1 DEF CustomInv, ServersFollowProbes
<1>9. HandlersAreServed'
  <2>1. Answering => Answering'
    <3>1. Answering => Reachable
      BY AnsweringIsReachable
    <3>2. CASE Probe(p) \/ StartServer(p) \/ Serve(p)
      <4> SUFFICES ASSUME Answering PROVE Answering'
        OBVIOUS
      <4>1. thread \in [Proc -> {"none", "starting", "bound", "up", "over"}]
        BY <1>2 DEF TypeOK
      <4>2. owner' = owner /\ \A q \in Proc : thread[q] = "up" => thread'[q] = "up"
        <5>1. CASE Probe(p)
          BY <4>1, <5>1 DEF Probe, server, CustomInv, ServersFollowProbes
        <5>2. CASE StartServer(p)
          BY <3>1, <4>1, <5>2 DEF StartServer, server
        <5>3. CASE Serve(p)
          BY <4>1, <5>3 DEF Serve, server
        <5> QED BY <3>2, <5>1, <5>2, <5>3
      <4> QED BY <4>2 DEF Answering
    <3>3. CASE ServerFails(p)
      <4>1. owner = p /\ thread[p] = "bound"
        BY <3>3 DEF ServerFails, CustomInv, ServersHoldTheAddress
      <4> QED BY <4>1, OwnerAssumption DEF Answering
    <3> QED BY <3>2, <3>3 DEF ServerSteps
  <2> QED BY <1>3, <2>1 DEF CustomInv, HandlersAreServed
<1>10. RunsAreNotForgotten'
  BY <1>1, <1>2, <1>3 DEF CustomInv, RunsAreNotForgotten
<1>11. ASSUME Alone PROVE Alone'
  <2>1. OneWorkerPerRun'
    BY <1>1, <1>4, <1>11 DEF Alone, OneWorkerPerRun, Unshared
  <2>2. EndsAreRecorded'
    BY <1>1, <1>3, <1>11 DEF Alone, EndsAreRecorded, Reported, Status, Unshared
  <2>3. SuccessIsFinal'
    BY <1>1, <1>3, <1>4, <1>11 DEF Alone, SuccessIsFinal, Status, Unshared
  <2>4. PointsAreKept'
    <3> SUFFICES ASSUME owner' = QtServe
                 PROVE  owner = QtServe /\ buffer' = buffer
      BY <1>1, <1>3, <1>11 DEF Alone, PointsAreKept, File, Unshared
    <3>1. QtServe # Nobody /\ QtServe # p
      BY OwnerAssumption DEF QtServe, Nobody
    <3> QED BY <3>1 DEF ServerSteps, Probe, StartServer, Serve, ServerFails, server
  <2> QED BY <2>1, <2>2, <2>3, <2>4 DEF Alone
<1> QED
  BY <1>2, <1>5, <1>6, <1>7, <1>8, <1>9, <1>10, <1>11 DEF CustomInv

(* The command starts, emits and ends. *)
CommandSteps(p) == SpawnCommand(p) \/ CommandEnds(p) \/ \E m \in Metric : EmitMetric(p, m)

LEMMA CommandStepsKeep ==
    ASSUME OneWorkspace, CustomInv, NEW p \in Proc, CommandSteps(p)
    PROVE  CustomInv' /\ (Alone => Alone')
<1>1. /\ runs' = runs /\ files' = files /\ id' = id /\ thread' = thread /\ owner' = owner
      /\ shared' = shared
      /\ pc' = pc \/ (pc[p] = "health" /\ pc' = [pc EXCEPT ![p] = "waiting"])
  BY DEF CommandSteps, SpawnCommand, CommandEnds, EmitMetric, stores, server, Goto
<1>2. TypeOK
  BY DEF CustomInv
<1>3. TypeOK'
  <2>1. CASE SpawnCommand(p)
    BY <1>2, <2>1 DEF TypeOK, SpawnCommand, stores, server, Goto
  <2>2. CASE CommandEnds(p)
    BY <1>2, <2>2 DEF TypeOK, CommandEnds, stores, server
  <2>3. ASSUME NEW m \in Metric, EmitMetric(p, m) PROVE TypeOK'
    BY <1>2, <2>3 DEF TypeOK, EmitMetric, stores
  <2> QED BY <2>1, <2>2, <2>3 DEF CommandSteps
<1>4. /\ \A q \in Proc : pc'[q] = pc[q] \/ (q = p /\ pc[q] = "health" /\ pc'[q] = "waiting")
      /\ \A q \in Proc : child'[q] = child[q]
                        \/ (q = p /\ pc'[q] = "waiting" /\ child'[q] = "working")
                        \/ (q = p /\ child[q] = "working" /\ child'[q] \in {"success", "failure"})
  BY <1>1, <1>2 DEF TypeOK, CommandSteps, SpawnCommand, CommandEnds, EmitMetric, Goto
<1>5. \A q \in Proc : Alive(q)' <=> Alive(q)
  BY <1>4 DEF Alive, Over
<1>6. WorkersHaveRuns'
  BY <1>1, <1>4 DEF CustomInv, WorkersHaveRuns, Status
<1>7. \A q \in Proc :
          acked'[q] = acked[q] \/ (q = p /\ child[p] = "working" /\ child'[p] = "working")
  <2>1. CASE SpawnCommand(p) \/ CommandEnds(p)
    <3>1. acked' = acked
      /\ shared' = shared
      BY <2>1 DEF SpawnCommand, CommandEnds
    <3> QED BY <3>1
  <2>2. ASSUME NEW m \in Metric, EmitMetric(p, m)
        PROVE  acked' = [acked EXCEPT ![p] = acked[p] \cup {m}]
               /\ child[p] = "working" /\ child' = child
    BY <2>2 DEF EmitMetric
  <2> QED BY <1>2, <2>1, <2>2 DEF TypeOK, CommandSteps
<1>8. CommandsAreAwaited'
  BY <1>4, <1>7 DEF CustomInv, CommandsAreAwaited
<1>9. \A q \in Proc : pc'[q] \in {"flushing", "stopping", "exited"} =>
          pc'[q] = pc[q] /\ child'[q] = child[q] /\ acked'[q] = acked[q]
  BY <1>4, <1>7 DEF CustomInv, CommandsAreAwaited
<1>10. ServersFollowProbes' /\ ServersHoldTheAddress' /\ HandlersAreServed'
  BY <1>1, <1>4 DEF CustomInv, ServersFollowProbes, ServersHoldTheAddress, HandlersAreServed,
                    Answering
<1>11. RunsAreNotForgotten'
  BY <1>1, <1>3, <1>4 DEF CustomInv, RunsAreNotForgotten
<1>12. ASSUME Alone PROVE Alone'
  <2>1. OneWorkerPerRun'
    BY <1>1, <1>5, <1>12 DEF Alone, OneWorkerPerRun, Unshared
  <2>2. EndsAreRecorded' /\ SuccessIsFinal'
    BY <1>1, <1>5, <1>9, <1>12 DEF Alone, EndsAreRecorded, Reported, SuccessIsFinal, Status,
                                      Unshared
  <2>3. PointsAreKept'
    <3>1. CASE UNCHANGED <<buffer, acked>>
      BY <1>1, <1>4, <1>9, <1>12, <3>1 DEF Alone, PointsAreKept, File, Unshared
    <3>2. ASSUME NEW m \in Metric, EmitMetric(p, m) PROVE PointsAreKept'
      <4>1. /\ buffer' = [buffer EXCEPT ![id[p]] = buffer[id[p]] \cup {m}]
            /\ acked' = [acked EXCEPT ![p] = acked[p] \cup {m}]
            /\ pc' = pc /\ child[p] = "working" /\ child' = child
        BY <3>2 DEF EmitMetric
      <4>2. /\ pc[p] # "idle" /\ id[p] \in RunId
            /\ pc[p] \notin {"idle", "stopping", "exited"}
        BY <1>2, <4>1 DEF CustomInv, CommandsAreAwaited, WorkersHaveRuns
      <4>3. /\ \A r \in RunId : buffer[r] \subseteq buffer'[r]
            /\ m \in buffer'[id[p]]
        BY <1>2, <4>1, <4>2 DEF TypeOK
      <4>4. /\ acked'[p] = acked[p] \cup {m}
            /\ \A q \in Proc : q # p => acked'[q] = acked[q]
        BY <1>2, <4>1 DEF TypeOK
      <4>5. \A q \in Proc : pc[q] # "idle" => id[q] \in RunId
        BY DEF CustomInv, WorkersHaveRuns
      <4> QED BY <1>1, <1>12, <4>1, <4>2, <4>3, <4>4, <4>5
             DEF Alone, PointsAreKept, File, Unshared
    <3> QED BY <3>1, <3>2 DEF CommandSteps, SpawnCommand, CommandEnds, server
  <2> QED BY <2>1, <2>2, <2>3 DEF Alone
<1> QED
  BY <1>3, <1>6, <1>8, <1>10, <1>11, <1>12 DEF CustomInv

-----------------------------------------------------------------------------
(* A process ends, and perhaps a server with it. *)
EndSteps(p) == GiveUp(p) \/ ReportFails(p) \/ Exit(p) \/ Crash(p)

LEMMA EndStepsKeep ==
    ASSUME OneWorkspace, CustomInv, NEW p \in Proc, EndSteps(p)
    PROVE  CustomInv' /\ (Alone => Alone')
<1>1. PICK label \in Over :
          /\ Alive(p) /\ End(p, label)
          /\ label = "exited" => pc[p] = "stopping"
          /\ runs' = runs /\ files' = files /\ id' = id /\ child' = child /\ acked' = acked
          /\ shared' = shared
  BY DEF EndSteps, GiveUp, ReportFails, Exit, Crash, stores, Alive, Over
<1>2. TypeOK /\ pc[p] \notin {"idle", "exited", "error", "crashed"}
  BY <1>1 DEF CustomInv, Alive, Over
<1>3. /\ pc' = [q \in Proc |-> IF q = p THEN label
                                ELSE IF owner = p /\ pc[q] = "flushing" THEN "refused"
                                ELSE pc[q]]
      /\ thread' = [thread EXCEPT ![p] = IF thread[p] = "none" THEN "none" ELSE "over"]
      /\ owner = p => owner' = Nobody /\ buffer' = Nothing
      /\ owner # p => owner' = owner /\ buffer' = buffer
  BY <1>1 DEF End, server
<1>4. /\ pc'[p] = label
      /\ \A q \in Proc : q # p => \/ pc'[q] = pc[q]
                                  \/ pc[q] = "flushing" /\ pc'[q] = "refused"
      /\ owner = p => \A q \in Proc : pc'[q] # "flushing"
      /\ label \in {"exited", "error", "crashed"}
  BY <1>3 DEF Over
<1>5. \A q \in Proc : Alive(q)' <=> (q # p /\ Alive(q))
  BY <1>4 DEF Alive, Over
<1>6. /\ thread'[p] \in {"none", "over"}
      /\ \A q \in Proc : q # p => thread'[q] = thread[q]
  BY <1>2, <1>3 DEF TypeOK
<1>7. TypeOK'
  <2>1. pc' \in [Proc -> {"idle", "resuming", "probing", "health", "waiting", "flushing",
                          "refused", "stopping", "exited", "error", "crashed"}]
    BY <1>2, <1>3, <1>4 DEF TypeOK
  <2>2. thread' \in [Proc -> {"none", "starting", "bound", "up", "over"}]
    BY <1>2, <1>3 DEF TypeOK
  <2>3. owner' \in Proc \cup {QtServe, Nobody} /\ buffer' \in [RunId -> SUBSET Metric]
    BY <1>2, <1>3 DEF TypeOK, Nothing
  <2> QED BY <1>1, <1>2, <2>1, <2>2, <2>3 DEF TypeOK
<1>8. WorkersHaveRuns'
  BY <1>1, <1>2, <1>4 DEF CustomInv, WorkersHaveRuns, Status
<1>9. CommandsAreAwaited'
  BY <1>1, <1>2, <1>4 DEF CustomInv, CommandsAreAwaited
<1>10. ServersFollowProbes'
  BY <1>2, <1>4, <1>6 DEF CustomInv, ServersFollowProbes
<1>11. ServersHoldTheAddress'
  <2> SUFFICES ASSUME NEW q \in Proc, thread'[q] \in {"bound", "up"} PROVE owner' = q
    BY DEF ServersHoldTheAddress
  <2>1. q # p /\ owner = q
    BY <1>6 DEF CustomInv, ServersHoldTheAddress
  <2> QED BY <1>3, <2>1
<1>12. HandlersAreServed'
  BY <1>3, <1>4, <1>6 DEF CustomInv, HandlersAreServed, Answering
<1>13. RunsAreNotForgotten'
  <2> SUFFICES ASSUME NEW w \in Workspace, NEW r \in RunId, runs[w][r] = "running"
               PROVE  \E q \in Proc :
                          /\ Home[q] = w /\ id[q] = r
                          /\ pc'[q] \in {"probing", "health", "waiting", "error", "crashed"}
    BY <1>1, <1>7 DEF RunsAreNotForgotten
  <2>1. PICK q \in Proc :
            /\ Home[q] = w /\ id[q] = r
            /\ pc[q] \in {"probing", "health", "waiting", "error", "crashed"}
    BY DEF CustomInv, RunsAreNotForgotten
  <2>2. CASE q = p
    BY <1>1, <1>4, <2>1, <2>2
  <2>3. CASE q # p
    BY <1>4, <2>1, <2>3
  <2> QED BY <2>2, <2>3
<1>14. ASSUME Alone PROVE Alone'
  <2>1. OneWorkerPerRun'
    BY <1>1, <1>5, <1>14 DEF Alone, OneWorkerPerRun, Unshared
  <2>2. EndsAreRecorded'
    BY <1>1, <1>4, <1>14 DEF Alone, EndsAreRecorded, Status, Reported, Unshared
  <2>3. SuccessIsFinal'
    <3> SUFFICES ASSUME NEW q \in Proc, pc'[q] = "exited", child[q] = "success", Unshared(id[q])
                 PROVE  /\ Status(id[q]) = "completed"
                        /\ \A u \in Proc : u # p /\ Alive(u) => id[u] # id[q]
      BY <1>1, <1>5 DEF SuccessIsFinal, Status, Unshared
    <3>1. CASE q = p
      <4>1. pc[p] = "stopping"
        BY <1>1, <1>4, <3>1
      <4>2. Status(id[p]) = "completed"
        BY <1>14, <3>1, <4>1 DEF Alone, EndsAreRecorded, Reported, Unshared
      <4> QED BY <1>1, <1>14, <3>1, <4>2 DEF Alone, OneWorkerPerRun, Unshared
    <3>2. CASE q # p
      BY <1>4, <1>14, <3>2 DEF Alone, SuccessIsFinal, Unshared
    <3> QED BY <3>1, <3>2
  <2>4. PointsAreKept'
    <3> SUFFICES ASSUME owner' = QtServe PROVE PointsAreKept'
      BY DEF PointsAreKept
    <3>1. owner = QtServe /\ buffer' = buffer
      BY <1>3, OwnerAssumption DEF QtServe, Nobody
    <3> QED BY <1>1, <1>4, <1>14, <3>1 DEF Alone, PointsAreKept, File, Unshared
  <2> QED BY <2>1, <2>2, <2>3, <2>4 DEF Alone
<1> QED
  BY <1>7, <1>8, <1>9, <1>10, <1>11, <1>12, <1>13, <1>14 DEF CustomInv

-----------------------------------------------------------------------------
(* The end of a run: the commit, and then the flush or its failure. *)

LEMMA ReportEndKeeps ==
    ASSUME OneWorkspace, CustomInv, NEW p \in Proc, ReportEnd(p)
    PROVE  CustomInv' /\ (Alone => Alone')
<1>1. /\ pc[p] = "waiting" /\ child[p] \in {"success", "failure"} /\ Answering
      /\ runs' = [runs EXCEPT ![ServeHome][id[p]] = Reported(p)]
      /\ pc' = [pc EXCEPT ![p] = "flushing"]
      /\ files' = files /\ owner' = owner /\ buffer' = buffer /\ id' = id
      /\ thread' = thread /\ child' = child /\ acked' = acked
      /\ shared' = shared
  BY AnsweringIsReachable, OneServerHome DEF ReportEnd, Served, Goto, server
<1>2. /\ TypeOK /\ ServeHome \in Workspace /\ id[p] \in RunId
      /\ Reported(p) \in {"completed", "failed"}
  BY <1>1, HomeAssumption DEF CustomInv, WorkersHaveRuns, Reported
<1>3. TypeOK'
  BY <1>1, <1>2 DEF TypeOK, RunStatus
<1>4. /\ pc'[p] = "flushing" /\ \A q \in Proc : q # p => pc'[q] = pc[q]
      /\ runs'[ServeHome][id[p]] = Reported(p)
      /\ \A w \in Workspace, r \in RunId :
            w # ServeHome \/ r # id[p] => runs'[w][r] = runs[w][r]
  BY <1>1, <1>2 DEF TypeOK
<1>5. Alive(p) /\ \A q \in Proc : Alive(q)' <=> Alive(q)
  BY <1>1, <1>4 DEF Alive, Over
<1>6. WorkersHaveRuns'
  BY <1>1, <1>2, <1>4 DEF CustomInv, WorkersHaveRuns, Status
<1>7. CommandsAreAwaited'
  BY <1>1, <1>4 DEF CustomInv, CommandsAreAwaited
<1>8. ServersFollowProbes' /\ ServersHoldTheAddress' /\ HandlersAreServed'
  BY <1>1, <1>4 DEF CustomInv, ServersFollowProbes, ServersHoldTheAddress, HandlersAreServed,
                    Answering
<1>9. RunsAreNotForgotten'
  <2> SUFFICES ASSUME NEW w \in Workspace, NEW r \in RunId, runs'[w][r] = "running"
               PROVE  \E q \in Proc :
                          /\ Home[q] = w /\ id[q] = r
                          /\ pc'[q] \in {"probing", "health", "waiting", "error", "crashed"}
    BY <1>1, <1>3 DEF RunsAreNotForgotten
  <2>1. runs[w][r] = "running" /\ (w # ServeHome \/ r # id[p])
    BY <1>2, <1>4
  <2>2. PICK q \in Proc :
            /\ Home[q] = w /\ id[q] = r
            /\ pc[q] \in {"probing", "health", "waiting", "error", "crashed"}
    BY <2>1 DEF CustomInv, RunsAreNotForgotten
  <2>3. q # p
    BY <2>1, <2>2 DEF OneWorkspace
  <2> QED BY <1>1, <1>4, <2>2, <2>3
<1>10. ASSUME Alone PROVE Alone'
  <2>1. \A q \in Proc : q # p /\ Alive(q) /\ Unshared(id[q]) => id[q] # id[p]
    BY <1>5, <1>10 DEF Alone, OneWorkerPerRun, Unshared
  <2>2. OneWorkerPerRun'
    BY <1>1, <1>5, <1>10 DEF Alone, OneWorkerPerRun, Unshared
  <2>3. EndsAreRecorded'
    <3> SUFFICES ASSUME NEW q \in Proc, pc'[q] \in {"flushing", "stopping"}, Unshared(id[q])
                 PROVE  runs'[ServeHome][id[q]] = Reported(q)
      BY <1>1 DEF EndsAreRecorded, Status, Reported, Unshared
    <3>1. CASE q = p
      BY <1>4, <3>1
    <3>2. CASE q # p
      <4>1. pc[q] = pc'[q] /\ Alive(q) /\ id[q] # id[p]
        BY <1>4, <2>1, <3>2 DEF Alive, Over
      <4>2. id[q] \in RunId /\ Status(id[q]) = Reported(q)
        BY <1>10, <4>1 DEF Alone, CustomInv, EndsAreRecorded, WorkersHaveRuns, Unshared
      <4> QED BY <1>2, <1>4, <4>1, <4>2 DEF Status
    <3> QED BY <3>1, <3>2
  <2>4. SuccessIsFinal'
    <3> SUFFICES ASSUME NEW q \in Proc, pc'[q] = "exited", child[q] = "success", Unshared(id[q])
                 PROVE  /\ runs'[ServeHome][id[q]] = "completed"
                        /\ \A u \in Proc : Alive(u) => id[u] # id[q]
      BY <1>1, <1>5 DEF SuccessIsFinal, Status, Unshared
    <3>1. pc[q] = "exited" /\ id[q] \in RunId
      BY <1>4 DEF CustomInv, WorkersHaveRuns
    <3>2. Status(id[q]) = "completed" /\ \A u \in Proc : Alive(u) => id[u] # id[q]
      BY <1>10, <3>1 DEF Alone, SuccessIsFinal, Unshared
    <3> QED BY <1>2, <1>4, <1>5, <3>1, <3>2 DEF Status
  <2>5. PointsAreKept'
    BY <1>1, <1>4, <1>10 DEF Alone, PointsAreKept, File, Unshared
  <2> QED BY <2>2, <2>3, <2>4, <2>5 DEF Alone
<1> QED
  BY <1>3, <1>6, <1>7, <1>8, <1>9, <1>10 DEF CustomInv

LEMMA FlushKeeps ==
    ASSUME OneWorkspace, CustomInv, NEW p \in Proc, FlushMetrics(p) \/ FlushFails(p)
    PROVE  CustomInv' /\ (Alone => Alone')
<1>1. /\ pc[p] = "flushing"
      /\ buffer' = [buffer EXCEPT ![id[p]] = {}]
      /\ runs' = runs /\ owner' = owner /\ id' = id /\ thread' = thread
      /\ child' = child /\ acked' = acked
      /\ shared' = shared
  BY DEF FlushMetrics, FlushFails, stores
<1>2. TypeOK /\ ServeHome \in Workspace /\ id[p] \in RunId /\ Alive(p)
  BY <1>1, HomeAssumption DEF CustomInv, WorkersHaveRuns, Alive, Over
<1>3. \/ /\ files' = [files EXCEPT ![ServeHome][id[p]] =
                          IF buffer[id[p]] = {} THEN File(id[p]) ELSE buffer[id[p]]]
         /\ pc' = [pc EXCEPT ![p] = "stopping"]
      \/ /\ files' = files
         /\ pc' = [pc EXCEPT ![p] = "refused"]
  <2>1. ServerHome = ServeHome
    BY <1>1, AnsweringIsReachable, OneServerHome DEF CustomInv, HandlersAreServed
  <2> QED BY <2>1 DEF FlushMetrics, FlushFails, stores, Goto, File
<1>4. TypeOK'
  <2>1. buffer' \in [RunId -> SUBSET Metric]
    BY <1>1, <1>2 DEF TypeOK
  <2>2. files' \in [Workspace -> [RunId -> SUBSET Metric]]
    <3>1. /\ files \in [Workspace -> [RunId -> SUBSET Metric]]
          /\ buffer[id[p]] \subseteq Metric /\ File(id[p]) \subseteq Metric
      BY <1>2 DEF TypeOK, File
    <3> DEFINE content == IF buffer[id[p]] = {} THEN File(id[p]) ELSE buffer[id[p]]
    <3>2. content \subseteq Metric
      BY <3>1
    <3> HIDE DEF content
    <3>3. CASE files' = [files EXCEPT ![ServeHome][id[p]] = content]
      BY <1>2, <3>1, <3>2, <3>3
    <3> QED BY <1>3, <3>1, <3>3 DEF content
  <2>3. pc' \in [Proc -> {"idle", "resuming", "probing", "health", "waiting", "flushing",
                          "refused", "stopping", "exited", "error", "crashed"}]
    BY <1>2, <1>3 DEF TypeOK
  <2> QED BY <1>1, <1>2, <2>1, <2>2, <2>3 DEF TypeOK
<1>5. pc'[p] \in {"stopping", "refused"} /\ \A q \in Proc : q # p => pc'[q] = pc[q]
  BY <1>2, <1>3 DEF TypeOK
<1>6. \A q \in Proc : Alive(q)' <=> Alive(q)
  BY <1>2, <1>5 DEF Alive, Over
<1>7. WorkersHaveRuns' /\ CommandsAreAwaited'
  BY <1>1, <1>5 DEF CustomInv, WorkersHaveRuns, CommandsAreAwaited, Status
<1>8. ServersFollowProbes' /\ ServersHoldTheAddress' /\ HandlersAreServed'
  BY <1>1, <1>5 DEF CustomInv, ServersFollowProbes, ServersHoldTheAddress, HandlersAreServed,
                    Answering
<1>9. RunsAreNotForgotten'
  BY <1>1, <1>4, <1>5 DEF CustomInv, RunsAreNotForgotten
<1>10. ASSUME Alone PROVE Alone'
  <2>1. OneWorkerPerRun'
    BY <1>1, <1>6, <1>10 DEF Alone, OneWorkerPerRun, Unshared
  <2>2. EndsAreRecorded' /\ SuccessIsFinal'
    BY <1>1, <1>5, <1>6, <1>10 DEF Alone, EndsAreRecorded, SuccessIsFinal, Status, Reported,
                                      Unshared
  <2>3. PointsAreKept'
    <3> SUFFICES ASSUME owner = QtServe, NEW q \in Proc, Unshared(id[q])
                 PROVE  /\ pc'[q] \in {"resuming", "probing", "health", "waiting", "flushing"} =>
                              acked[q] \subseteq buffer'[id[q]]
                        /\ pc'[q] = "stopping" \/ (pc'[q] = "exited" /\ child[q] = "success") =>
                              acked[q] \subseteq files'[ServeHome][id[q]]
      BY <1>1 DEF PointsAreKept, File, Unshared
    <3>1. /\ \A r \in RunId : r # id[p] => buffer'[r] = buffer[r]
          /\ \A r \in RunId : r # id[p] => files'[ServeHome][r] = files[ServeHome][r]
      BY <1>1, <1>2, <1>3 DEF TypeOK
    <3>2. CASE q = p
      <4>1. acked[p] \subseteq buffer[id[p]]
        BY <1>1, <1>10, <3>2 DEF Alone, PointsAreKept, Unshared
      <4>2. pc'[p] = "stopping" => acked[p] \subseteq files'[ServeHome][id[p]]
        BY <1>2, <1>3, <4>1 DEF TypeOK
      <4> QED BY <1>5, <3>2, <4>2
    <3>3. CASE q # p /\ pc[q] # "idle"
                    /\ (Alive(q) \/ (pc[q] = "exited" /\ child[q] = "success"))
      <4>1. id[q] # id[p] /\ id[q] \in RunId
        BY <1>2, <1>10, <3>3
           DEF Alone, CustomInv, OneWorkerPerRun, SuccessIsFinal, WorkersHaveRuns, Unshared
      <4> QED BY <1>5, <1>10, <3>1, <3>3, <4>1 DEF Alone, PointsAreKept, File, Unshared
    <3> QED BY <1>5, <3>2, <3>3 DEF Alive, Over
  <2> QED BY <2>1, <2>2, <2>3 DEF Alone
<1> QED
  BY <1>4, <1>7, <1>8, <1>9, <1>10 DEF CustomInv

-----------------------------------------------------------------------------
LEMMA CustomStutter == CustomInv /\ UNCHANGED vars => CustomInv' /\ (Alone => Alone')
<1> SUFFICES ASSUME CustomInv, UNCHANGED vars PROVE CustomInv' /\ (Alone => Alone')
  OBVIOUS
<1>1. /\ runs' = runs /\ files' = files /\ owner' = owner /\ buffer' = buffer /\ pc' = pc
      /\ id' = id /\ thread' = thread /\ child' = child /\ acked' = acked
      /\ shared' = shared
  BY DEF vars
<1>2. TypeOK' /\ WorkersHaveRuns' /\ CommandsAreAwaited' /\ ServersFollowProbes'
  BY <1>1 DEF CustomInv, TypeOK, WorkersHaveRuns, CommandsAreAwaited, ServersFollowProbes, Status
<1>3. ServersHoldTheAddress' /\ HandlersAreServed' /\ RunsAreNotForgotten'
  BY <1>1, <1>2 DEF CustomInv, ServersHoldTheAddress, HandlersAreServed, Answering,
                    RunsAreNotForgotten
<1>4. Alone => Alone'
  BY <1>1 DEF Alone, OneWorkerPerRun, EndsAreRecorded, SuccessIsFinal, PointsAreKept, Status,
              Reported, Alive, File, Unshared
<1> QED BY <1>2, <1>3, <1>4 DEF CustomInv

(* Once it has begun, a process keeps the invariant, and Alone with it. *)
LEMMA ProceedKeeps ==
    ASSUME OneWorkspace, CustomInv, NEW p \in Proc, Proceed(p) \/ Crash(p)
    PROVE  CustomInv' /\ (Alone => Alone')
BY ResumeKeeps, ServerStepsKeep, CommandStepsKeep, EndStepsKeep, ReportEndKeeps, FlushKeeps
   DEF Proceed, ServerSteps, CommandSteps, EndSteps

LEMMA CustomInvNext ==
    OneWorkspace /\ CustomInv /\ Alone /\ [Next]_vars => CustomInv' /\ Alone'
<1> SUFFICES ASSUME OneWorkspace, CustomInv, Alone, [Next]_vars PROVE CustomInv' /\ Alone'
  OBVIOUS
<1>1. ASSUME NEW p \in Proc, CreateRun(p) \/ FindRun(p) \/ Proceed(p) \/ Crash(p)
      PROVE  CustomInv' /\ Alone'
  BY <1>1, BeginKeeps, ProceedKeeps
<1> QED BY <1>1, CustomStutter DEF Next

(* The invariant holds for all processes of one workspace, whichever runs they resume: no
   two of them are at work on a run that is not shared, and what each has committed and
   flushed of such a run stays. *)
THEOREM CustomInvariance ==
    ASSUME OneWorkspace
    PROVE  Spec => [](CustomInv /\ Alone)
<1>1. Init => CustomInv /\ Alone
  BY CustomInvInit
<1>2. CustomInv /\ Alone /\ [Next]_vars => CustomInv' /\ Alone'
  BY CustomInvNext
<1> QED BY <1>1, <1>2, PTL DEF Spec

(* A run that `qt run' leaves in state "running" belongs to a process that has not reported
   its end or that ended with an error or a crash, however many processes are at work on
   it; and the types are kept. *)
THEOREM NoRunIsForgotten ==
    ASSUME OneWorkspace
    PROVE  Spec => []RunsAreNotForgotten
<1>1. CustomInv => RunsAreNotForgotten
  BY DEF CustomInv
<1> QED BY <1>1, CustomInvariance, PTL

(* The points emitted to a server that lasts are in the file of a run that succeeded,
   whatever other processes flush and however often the run was resumed before, unless two
   processes were at work on it at once. *)
THEOREM LastingServersKeepMetrics ==
    ASSUME OneWorkspace
    PROVE  Spec => []ServedMetricsAreKept
<1>1. CustomInv /\ Alone => ServedMetricsAreKept
  BY DEF CustomInv, Alone, PointsAreKept, ServedMetricsAreKept, OneWorkspace, File, Unshared
<1> QED BY <1>1, CustomInvariance, PTL

(* A process exits without an error by itself, and in no other way. *)
LEMMA OnlyExitExits ==
    ASSUME CustomInv, Next, NEW p \in Proc, pc[p] # "exited", pc'[p] = "exited"
    PROVE  Exit(p)
<1>1. PICK q \in Proc : CreateRun(q) \/ FindRun(q) \/ Proceed(q) \/ Crash(q)
  BY DEF Next
<1>2. pc \in [Proc -> {"idle", "resuming", "probing", "health", "waiting", "flushing",
                       "refused", "stopping", "exited", "error", "crashed"}]
  BY DEF CustomInv, TypeOK
<1>3. CASE CreateRun(q) \/ FindRun(q) \/ ResumeRun(q) \/ Probe(q)
  BY <1>2, <1>3 DEF CreateRun, FindRun, ResumeRun, Probe, Goto
<1>4. CASE StartServer(q) \/ Serve(q) \/ ServerFails(q) \/ CommandEnds(q)
  BY <1>4 DEF StartServer, Serve, ServerFails, CommandEnds
<1>5. CASE SpawnCommand(q) \/ ReportEnd(q) \/ FlushMetrics(q) \/ FlushFails(q)
  BY <1>2, <1>5 DEF SpawnCommand, ReportEnd, FlushMetrics, FlushFails, Goto
<1>6. ASSUME NEW m \in Metric, EmitMetric(q, m) PROVE FALSE
  BY <1>6 DEF EmitMetric
<1>7. CASE GiveUp(q) \/ ReportFails(q) \/ Crash(q)
  BY <1>7 DEF GiveUp, ReportFails, Crash, End
<1>8. CASE Exit(q)
  <2>1. q = p
    BY <1>8 DEF Exit, End
  <2> QED BY <1>8, <2>1
<1> QED BY <1>1, <1>3, <1>4, <1>5, <1>6, <1>7, <1>8 DEF Proceed

(* execute_custom reports what the database says, unless a second process was at work on
   the run: otherwise nobody else writes the status between the commit of the end of a run
   and the exit of its process. *)
THEOREM ReportsAreRecorded ==
    ASSUME OneWorkspace
    PROVE  Spec => ReportedStatusIsRecorded
<1> DEFINE Recorded ==
        \A p \in Proc :
            pc[p] # "exited" /\ pc'[p] = "exited" /\ id[p] \notin shared[Home[p]] =>
                runs'[Home[p]][id[p]] = Reported(p)
<1>1. CustomInv /\ Alone /\ [Next]_vars => [Recorded]_vars
  <2> SUFFICES ASSUME CustomInv, Alone, Next,
                      NEW p \in Proc, pc[p] # "exited", pc'[p] = "exited",
                      id[p] \notin shared[Home[p]]
               PROVE  runs'[Home[p]][id[p]] = Reported(p)
    OBVIOUS
  <2>1. Exit(p)
    BY OnlyExitExits
  <2>2. pc[p] = "stopping" /\ runs' = runs
    BY <2>1 DEF Exit, stores
  <2>3. Status(id[p]) = Reported(p)
    BY <2>2 DEF Alone, EndsAreRecorded, Unshared, OneWorkspace
  <2> QED BY <2>2, <2>3 DEF OneWorkspace, Status
<1> QED BY <1>1, CustomInvariance, PTL DEF Spec, ReportedStatusIsRecorded
=============================================================================
