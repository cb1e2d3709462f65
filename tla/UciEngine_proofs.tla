-------------------------- MODULE UciEngine_proofs --------------------------
(***************************************************************************)
(* The safety invariants of UciEngine, proved for every bound, every set   *)
(* of commands and every bench corpus.                                     *)
(*                                                                         *)
(* None of them is inductive.  They all rest on one fact that no handler   *)
(* states: a live worker is always the one the orchestrator holds a handle *)
(* of, or the one it is joining (OwnerInv), so that once a join returns no *)
(* worker is left.  The other parts of IInv say what the reader still owes *)
(* (ReaderInv), which handler runs at which program point (HandlerInv),    *)
(* who holds the search mutex (MutexInv), and relate the shared flag, the  *)
(* shared parameters and the shared tables to the search under way.        *)
(***************************************************************************)
EXTENDS UciEngine, SequenceTheorems, TLAPS

\* A returned reader has sent Quit, and no more workers were spawned than
\* lines were read.
ReaderInv ==
  /\ reader = "returned" =>
       \/ channel # <<>> /\ channel[Len(channel)].op = "quit"
       \/ cmd.op = "quit" \/ pc = "exited"
  /\ spawned + Len(channel) + (IF pc \in {"recv", "exited"} THEN 0 ELSE 1)
       <= lines + (IF reader = "returned" THEN 1 ELSE 0)

HandlerInv ==
  /\ pc \in {"recv", "exited"} => cmd = NoCommand
  /\ pc \in {"join", "act"} => cmd.op \in JoiningOps \cup {"stop", "quit"}
  /\ pc = "resetSearch" => cmd.op \in {"ucinewgame", "bench"}
  /\ pc \in {"benchLock", "benchSearching"} => cmd.op = "bench"
  /\ cmd.op = "bench" => benchLeft >= 1

OwnerInv ==
  /\ \A i \in Workers : worker[i] = "unspawned" <=> i > spawned
  /\ \A i \in Workers :
       worker[i] \in {"unspawned", "done"} \/ i = handle \/ i = awaiting
  /\ handle <= spawned /\ awaiting <= spawned
  /\ pc # "recv" => handle = None
  /\ pc # "join" => awaiting = None

MutexInv ==
  /\ \A i \in Workers : worker[i] \in {"searching", "waiting", "found"} <=> mutex = i
  /\ mutex = Orchestrator <=> pc = "benchSearching"

\* While a search may still see the flag, the flag is up exactly if that
\* search has been cancelled.
CancelInv ==
  /\ \A i \in cancelled : i <= spawned
  /\ \A i \in Workers :
       worker[i] \in {"spawned", "searching", "waiting"} => (stop <=> i \in cancelled)
  /\ NoSpuriousAbort

SettingsInv ==
  /\ moverParams = params
  /\ \A i \in Workers : worker[i] = "spawned" => job[i].params = params
  /\ SearchSeesItsGo

GameInv ==
  /\ resetAt <= spawned
  /\ \A i \in Workers : worker[i] \notin {"unspawned", "done"} => i > resetAt
  /\ \A t \in tt : t = None \/ t > resetAt
  /\ pc # "resetSearch" => \A t \in memory : t = None \/ t > resetAt
  /\ pc \in {"resetSearch", "benchLock", "benchSearching"} => tt = {}
  /\ pc \in {"benchLock", "benchSearching"} => memory = {}

IInv ==
  /\ TypeOK /\ ReaderInv /\ HandlerInv /\ OwnerInv
  /\ MutexInv /\ CancelInv /\ SettingsInv /\ GameInv

USE DEF readerVars, engineVars, searchVars, historyVars, orchVars, workerVars,
        vars, None

\* What rx.recv() hands over is a command, and the rest of the queue stays.
LEMMA ReceiveType ==
  ASSUME TypeOK, channel # <<>>
  PROVE  /\ Head(channel) \in AllCommands
         /\ Tail(channel) \in Seq(AllCommands)
         /\ Len(Tail(channel)) = Len(channel) - 1
         /\ \A k \in 1 .. Len(channel) - 1 : Tail(channel)[k] = channel[k + 1]
  BY HeadTailProperties DEF TypeOK

\* What the arguments of a command are.
LEMMA CommandArgs ==
  ASSUME NEW c \in AllCommands
  PROVE  /\ c.op = "go" => c.arg \in Kinds
         /\ c.op = "position" => c.arg \in Positions
         /\ c.op \in {"overhead", "params"} => c.arg \in Settings
  BY DEF AllCommands

LEMMA QuitIsCommand == QuitCommand \in AllCommands /\ NoCommand.op = "none"
  BY DEF QuitCommand, AllCommands, NoCommand

LEMMA TypePreserved ==
  ASSUME IInv, [Next]_vars
  PROVE  TypeOK'
<1> USE CommandsAssumption, BoundsAssumption
        DEF IInv, TypeOK, Workers, Orchestrator
<1>1. ASSUME NEW c \in Commands, ReadLine(c) PROVE TypeOK'
  <2>1. Append(channel, c) \in Seq(AllCommands)
    BY AppendProperties
  <2> QED BY <1>1, <2>1 DEF ReadLine
<1>2. CASE ReadEof
  <2>1. Append(channel, QuitCommand) \in Seq(AllCommands)
    BY AppendProperties, QuitIsCommand
  <2> QED BY <1>2, <2>1 DEF ReadEof, SentAtEof
<1>3. CASE HandleReply
  BY <1>3, ReceiveType DEF HandleReply, Receive
<1>4. CASE HandleLog
  BY <1>4, ReceiveType DEF HandleLog, Receive
<1>5. CASE HandlePosition
  BY <1>5, ReceiveType, CommandArgs DEF HandlePosition, Receive
<1>6. CASE HandleOverhead
  BY <1>6, ReceiveType, CommandArgs DEF HandleOverhead, Receive
<1>7. CASE StartJoining
  <2>1. Held \subseteq Workers
    BY DEF Held
  <2>5. benchLeft' \in 0 .. NBench
    BY <1>7 DEF StartJoining
  <2>6. stop' \in BOOLEAN
    BY <1>7 DEF StartJoining, JoinInFlightWorker
  <2>2. cancelled' = cancelled \cup Held /\ awaiting' = handle
        /\ handle' = None /\ pc' = "join"
    BY <1>7 DEF StartJoining, JoinInFlightWorker, Join
  <2>3. cmd' \in AllCommands /\ channel' \in Seq(AllCommands)
    BY <1>7, ReceiveType DEF StartJoining, Receive
  <2>4. UNCHANGED <<readerVars, engineVars, searchVars, workerVars, out, replies,
                   ended, used, resetAt>>
    BY <1>7 DEF StartJoining
  <2> QED BY <2>1, <2>2, <2>3, <2>4, <2>5, <2>6
<1>8. CASE StartStopping
  BY <1>8, ReceiveType DEF StartStopping, StopAndJoin, Join, Held, Receive
<1>9. CASE Joined
  BY <1>9 DEF Joined
<1>10. CASE Go
  <2>1. /\ spawned + 1 \in Workers
        /\ cmd \in AllCommands
    BY <1>10, QuitIsCommand DEF Go, ReaderInv
  <2>2. [kind |-> cmd.arg, position |-> position, overhead |-> overhead,
         params |-> params] \in Jobs
    BY <1>10, <2>1, CommandArgs DEF Go, Jobs
  <2>3. worker' \in [Workers -> WorkerStates] /\ job' \in [Workers -> Jobs]
    BY <1>10, <2>1, <2>2 DEF Go, WorkerStates
  <2>4. spawned' \in 0 .. MaxLines /\ handle' \in Workers /\ stop' = FALSE
        /\ pc' = "recv" /\ cmd' = NoCommand
    BY <1>10, <2>1 DEF Go, FreshFlag, Return
  <2>5. UNCHANGED <<readerVars, channel, benchLeft, awaiting, engineVars,
                   searchVars, out, replies, historyVars>>
    BY <1>10 DEF Go
  <2> QED BY <2>1, <2>3, <2>4, <2>5
<1>11. CASE Stopped \/ Exit \/ SetHash \/ SetSeed
  BY <1>11 DEF Stopped, Exit, SetHash, SetSeed, Return
<1>12. CASE SetParams
  BY <1>12, CommandArgs, QuitIsCommand DEF SetParams, Return
<1>13. CASE ResetFields \/ ResetSearch
  BY <1>13 DEF ResetFields, ResetSearch, MemoryAfterReset, Return
<1>14. CASE BenchSearch \/ BenchDone
  <2>1. CASE BenchSearch
    BY <2>1 DEF BenchSearch
  <2>2. CASE BenchDone
    <3>1. benchLeft' \in 0 .. NBench
      BY <2>2 DEF BenchDone, HandlerInv
    <3> QED BY <2>2, <3>1 DEF BenchDone, Return
  <2> QED BY <1>14, <2>1, <2>2
<1>15. ASSUME NEW i \in Workers, WorkerNext(i) PROVE TypeOK'
  <2>1. CASE WorkerStart(i)
    <3>1. job[i] \in Jobs /\ moverParams \in Settings
      BY DEF IInv, TypeOK
    <3>2. [job[i] EXCEPT !.params = moverParams] \in Jobs
      BY <3>1 DEF Jobs
    <3> QED BY <2>1, <3>2 DEF WorkerStart, WorkerGoes, WorkerStates
  <2>2. CASE WorkerIterate(i) \/ WorkerReport(i)
    <3>1. \A l \in {Info(i), Bestmove(i)} :
            Append(out, l) \in Seq([line : {"info", "bestmove"}, go : Workers])
      BY AppendProperties DEF Info, Bestmove
    <3> QED BY ZenonT(40), <2>2, <3>1 DEF WorkerIterate, WorkerReport, WorkerGoes, WorkerStates
  <2>3. CASE WorkerComplete(i) \/ WorkerAbort(i) \/ WorkerUnlock(i)
    BY ZenonT(40), <2>3 DEF WorkerComplete, WorkerAbort, WorkerUnlock, WorkerGoes, WorkerStates
  <2> QED BY <1>15, <2>1, <2>2, <2>3 DEF WorkerNext
<1>16. CASE UNCHANGED vars
  BY <1>16
<1> QED
  BY <1>1, <1>2, <1>3, <1>4, <1>5, <1>6, <1>7, <1>8, <1>9, <1>10, <1>11,
     <1>12, <1>13, <1>14, <1>15, <1>16
  DEF Next, ReaderNext, OrchestratorNext, Terminated

\* Past the join of a handler, and after run returned, no worker is live.
LEMMA NoneLive ==
  ASSUME IInv, pc \notin {"recv", "join"}
  PROVE  \A i \in Workers : worker[i] \in {"unspawned", "done"}
  BY BoundsAssumption DEF IInv, TypeOK, OwnerInv, Workers

\* Taking the head of a longer queue leaves its last element in place.
LEMMA LastOfTail ==
  ASSUME NEW S, NEW s \in Seq(S), s # <<>>, Len(s) # 1
  PROVE  /\ Len(Tail(s)) = Len(s) - 1
         /\ Tail(s) # <<>>
         /\ Tail(s)[Len(Tail(s))] = s[Len(s)]
<1>1. /\ Tail(s) \in Seq(S) /\ Len(Tail(s)) = Len(s) - 1
      /\ \A i \in 1 .. Len(Tail(s)) : Tail(s)[i] = s[i + 1]
  BY HeadTailProperties
<1>2. Len(s) \in Nat /\ Len(s) > 1
  BY EmptySeq
<1>3. Len(s) - 1 \in 1 .. Len(s) - 1
  BY <1>2
<1>4. Tail(s)[Len(s) - 1] = s[(Len(s) - 1) + 1]
  BY <1>1, <1>3
<1>5. (Len(s) - 1) + 1 = Len(s)
  BY <1>2
<1>6. Len(Tail(s)) # 0
  BY <1>1, <1>2
<1>7. Tail(s) # <<>>
  <2> SUFFICES ASSUME Tail(s) = <<>> PROVE FALSE
    OBVIOUS
  <2>1. Len(Tail(s)) = Len(<<>>)
    OBVIOUS
  <2>2. Len(<<>>) = 0
    OBVIOUS
  <2> QED BY <1>6, <2>1, <2>2
<1> QED BY <1>1, <1>4, <1>5, <1>7

LEMMA ReaderPreserved ==
  ASSUME IInv, [Next]_vars
  PROVE  ReaderInv'
<1> USE DEF IInv, TypeOK, ReaderInv
<1>1. ASSUME NEW c \in Commands, ReadLine(c) PROVE ReaderInv'
  <2>1. /\ Append(channel, c) # <<>> /\ Len(Append(channel, c)) = Len(channel) + 1
        /\ Append(channel, c)[Len(channel) + 1] = c
    BY CommandsAssumption, AppendProperties
  <2> QED BY SMTT(40), <1>1, <2>1 DEF ReadLine
<1>2. CASE ReadEof
  <2>1. /\ Append(channel, QuitCommand) # <<>>
        /\ Len(Append(channel, QuitCommand)) = Len(channel) + 1
        /\ Append(channel, QuitCommand)[Len(channel) + 1] = QuitCommand
    BY QuitIsCommand, AppendProperties
  <2> QED BY <1>2, <2>1 DEF ReadEof, SentAtEof, QuitCommand
<1>3. ASSUME channel # <<>>, channel' = Tail(channel), UNCHANGED <<reader, lines, spawned>>,
             pc = "recv", pc' \in {"recv", "join"}, pc' = "join" => cmd' = Head(channel),
             Head(channel).op = "quit" => pc' = "join"
      PROVE ReaderInv'
  <2>1. /\ Len(channel) \in Nat \ {0} /\ Head(channel) = channel[1]
    BY <1>3
  <2>2. CASE Len(channel) = 1
    BY <1>3, <2>1, <2>2, ReceiveType DEF HandlerInv, NoCommand
  <2>3. CASE Len(channel) # 1
    <3>1. /\ channel' # <<>> /\ channel'[Len(channel')] = channel[Len(channel)]
          /\ Len(channel') = Len(channel) - 1
      BY <1>3, <2>3, LastOfTail
    <3>2. reader = "returned" => channel[Len(channel)].op = "quit"
      BY <1>3 DEF HandlerInv, NoCommand
    <3>3. spawned + Len(channel) <= lines + (IF reader = "returned" THEN 1 ELSE 0)
      BY <1>3
    <3>4. spawned + Len(channel') + (IF pc' \in {"recv", "exited"} THEN 0 ELSE 1)
            <= lines + (IF reader = "returned" THEN 1 ELSE 0)
      <4>1. lines \in Nat /\ spawned \in Nat /\ Len(channel) \in Nat
        BY <2>1
      <4>2. pc' \in {"recv", "join"} /\ Len(channel') = Len(channel) - 1
        BY <1>3, <3>1
      <4> HIDE DEF IInv, TypeOK, ReaderInv
      <4> QED BY <4>1, <4>2, <3>3
    <3> QED BY <1>3, <3>1, <3>2, <3>4
  <2> QED BY <2>2, <2>3
<1>4. CASE HandleReply \/ HandleLog \/ HandlePosition \/ HandleOverhead
  BY <1>4, <1>3 DEF HandleReply, HandleLog, HandlePosition, HandleOverhead, Receive
<1>5. CASE StartJoining \/ StartStopping
  BY <1>5, <1>3 DEF StartJoining, JoinInFlightWorker, StartStopping, StopAndJoin,
                    Join, Receive
<1>6. CASE Joined \/ ResetFields \/ BenchSearch
  BY <1>6 DEF Joined, ResetFields, BenchSearch
<1>7. CASE Go
  BY <1>7 DEF Go, Return
<1>8. CASE Stopped \/ SetHash \/ SetSeed \/ SetParams \/ Exit
  BY <1>8 DEF Stopped, SetHash, SetSeed, SetParams, Exit, Return
<1>9. CASE ResetSearch \/ BenchDone
  BY SMTT(40), <1>9 DEF ResetSearch, BenchDone, Return, HandlerInv
<1>10. ASSUME NEW i \in Workers, WorkerNext(i) PROVE ReaderInv'
  BY <1>10 DEF WorkerNext, WorkerStart, WorkerIterate, WorkerComplete, WorkerAbort,
               WorkerUnlock, WorkerReport, WorkerGoes
<1>11. CASE UNCHANGED vars
  BY <1>11
<1> QED
  BY <1>1, <1>2, <1>4, <1>5, <1>6, <1>7, <1>8, <1>9, <1>10, <1>11
  DEF Next, ReaderNext, OrchestratorNext, Terminated

LEMMA HandlerPreserved ==
  ASSUME IInv, [Next]_vars
  PROVE  HandlerInv'
<1> USE DEF IInv, TypeOK, HandlerInv, JoiningOps
<1>1. CASE ReaderNext
  BY <1>1 DEF ReaderNext, ReadLine, ReadEof
<1>2. CASE HandleReply \/ HandleLog \/ HandlePosition \/ HandleOverhead
  BY <1>2 DEF HandleReply, HandleLog, HandlePosition, HandleOverhead, Receive
<1>3. CASE StartJoining
  BY <1>3, BoundsAssumption DEF StartJoining, JoinInFlightWorker, Join, Receive
<1>4. CASE StartStopping
  BY <1>4 DEF StartStopping, StopAndJoin, Join, Receive
<1>5. CASE Joined \/ ResetFields \/ BenchSearch
  BY <1>5 DEF Joined, ResetFields, BenchSearch
<1>6. CASE Go \/ Stopped \/ SetHash \/ SetSeed \/ SetParams \/ Exit
  BY <1>6 DEF Go, Stopped, SetHash, SetSeed, SetParams, Exit, Return, NoCommand
<1>7. CASE ResetSearch \/ BenchDone
  BY <1>7 DEF ResetSearch, BenchDone, LastBench, Return, NoCommand
<1>8. ASSUME NEW i \in Workers, WorkerNext(i) PROVE HandlerInv'
  BY <1>8 DEF WorkerNext, WorkerStart, WorkerIterate, WorkerComplete, WorkerAbort,
              WorkerUnlock, WorkerReport, WorkerGoes
<1>9. CASE UNCHANGED vars
  BY <1>9
<1> QED
  BY <1>1, <1>2, <1>3, <1>4, <1>5, <1>6, <1>7, <1>8, <1>9
  DEF Next, OrchestratorNext, Terminated

LEMMA OwnerPreserved ==
  ASSUME IInv, [Next]_vars
  PROVE  OwnerInv'
<1> USE DEF IInv, TypeOK, OwnerInv, Workers
<1>1. CASE ReaderNext
  BY <1>1 DEF ReaderNext, ReadLine, ReadEof
<1>2. CASE HandleReply \/ HandleLog \/ HandlePosition \/ HandleOverhead
  BY ZenonT(40), <1>2 DEF HandleReply, HandleLog, HandlePosition, HandleOverhead, Receive
<1>3. CASE StartJoining \/ StartStopping
  BY ZenonT(40), <1>3 DEF StartJoining, JoinInFlightWorker, StartStopping, StopAndJoin,
              Join, Receive
<1>4. CASE Joined
  BY <1>4 DEF Joined
<1>5. CASE Go
  <2>1. spawned + 1 \in Workers
    BY <1>5, TypePreserved DEF Go
  <2>2. \A i \in Workers : worker'[i] = IF i = spawned + 1 THEN "spawned" ELSE worker[i]
    BY <1>5 DEF Go
  <2>3. handle' = spawned + 1 /\ spawned' = spawned + 1 /\ awaiting' = None
        /\ pc' = "recv"
    BY <1>5 DEF Go, Return
  <2> QED BY <1>5, <2>1, <2>2, <2>3, NoneLive DEF Go
<1>6. CASE Stopped \/ SetHash \/ SetSeed \/ SetParams \/ Exit
  BY <1>6 DEF Stopped, SetHash, SetSeed, SetParams, Exit, Return
<1>7. CASE ResetFields \/ ResetSearch \/ BenchSearch \/ BenchDone
  BY <1>7 DEF ResetFields, ResetSearch, BenchSearch, BenchDone, Return
<1>8. ASSUME NEW i \in Workers, WorkerNext(i) PROVE OwnerInv'
  <2>1. /\ worker[i] \notin {"unspawned", "done"}
        /\ worker'[i] # "unspawned"
        /\ \A j \in Workers \ {i} : worker'[j] = worker[j]
        /\ UNCHANGED <<orchVars, spawned>>
    BY ZenonT(40), <1>8 DEF WorkerNext, WorkerStart, WorkerIterate, WorkerComplete, WorkerAbort,
                WorkerUnlock, WorkerReport, WorkerGoes
  <2> QED BY <2>1
<1>9. CASE UNCHANGED vars
  BY <1>9
<1> QED
  BY <1>1, <1>2, <1>3, <1>4, <1>5, <1>6, <1>7, <1>8, <1>9
  DEF Next, OrchestratorNext, Terminated

LEMMA MutexPreserved ==
  ASSUME IInv, [Next]_vars
  PROVE  MutexInv'
<1> USE DEF IInv, TypeOK, MutexInv, Workers, Orchestrator
<1>1. CASE ReaderNext
  BY <1>1 DEF ReaderNext, ReadLine, ReadEof
<1>2. CASE HandleReply \/ HandleLog \/ HandlePosition \/ HandleOverhead
  BY <1>2 DEF HandleReply, HandleLog, HandlePosition, HandleOverhead, Receive
<1>3. CASE StartJoining \/ StartStopping
  BY <1>3 DEF StartJoining, JoinInFlightWorker, StartStopping, StopAndJoin,
              Join, Receive
<1>4. CASE Go
  <2>1. spawned + 1 \in Workers /\ worker[spawned + 1] = "unspawned"
    BY <1>4, TypePreserved DEF Go, OwnerInv
  <2>2. \A i \in Workers : worker'[i] = IF i = spawned + 1 THEN "spawned" ELSE worker[i]
    BY <1>4 DEF Go
  <2> QED BY <1>4, <2>1, <2>2 DEF Go, Return
<1>5. CASE Joined \/ Stopped \/ SetHash \/ SetSeed \/ SetParams \/ Exit
  BY <1>5 DEF Joined, Stopped, SetHash, SetSeed, SetParams, Exit, Return
<1>6. CASE ResetFields \/ ResetSearch
  BY <1>6 DEF ResetFields, ResetSearch, Return
<1>7. CASE BenchSearch \/ BenchDone
  BY <1>7, BoundsAssumption DEF BenchSearch, BenchDone, Return
<1>8. ASSUME NEW i \in Workers, WorkerNext(i) PROVE MutexInv'
  <2>1. \A j \in Workers \ {i} : worker'[j] = worker[j]
    BY <1>8 DEF WorkerNext, WorkerStart, WorkerIterate, WorkerComplete, WorkerAbort,
                WorkerUnlock, WorkerReport, WorkerGoes
  <2>2. CASE WorkerStart(i)
    <3>1. /\ mutex = None /\ mutex' = i /\ worker'[i] = "searching" /\ pc' = pc
      BY <2>2 DEF WorkerStart, WorkerGoes
    <3>2. i # None /\ i # Orchestrator
      BY BoundsAssumption
    <3>3. \A j \in Workers : worker[j] \notin {"searching", "waiting", "found"}
      BY <3>1, BoundsAssumption
    <3>4. \A j \in Workers :
            worker'[j] \in {"searching", "waiting", "found"} <=> mutex' = j
      BY <2>1, <3>1, <3>3
    <3>5. mutex' # Orchestrator /\ pc' # "benchSearching"
      BY <3>1, <3>2, BoundsAssumption
    <3> QED BY <3>4, <3>5
  <2>4. CASE WorkerUnlock(i)
    <3>1. /\ mutex = i /\ mutex' = None /\ worker'[i] = "reporting" /\ pc' = pc
      BY <2>4 DEF WorkerUnlock, WorkerGoes
    <3> QED BY SMTT(40), <2>1, <3>1, BoundsAssumption
  <2>3. CASE WorkerIterate(i) \/ WorkerComplete(i) \/ WorkerAbort(i) \/ WorkerReport(i)
    BY <2>1, <2>3 DEF WorkerIterate, WorkerComplete, WorkerAbort, WorkerReport, WorkerGoes
  <2> QED BY <1>8, <2>2, <2>3, <2>4 DEF WorkerNext
<1>9. CASE UNCHANGED vars
  BY <1>9
<1> QED
  BY <1>1, <1>2, <1>3, <1>4, <1>5, <1>6, <1>7, <1>8, <1>9
  DEF Next, OrchestratorNext, Terminated

LEMMA CancelPreserved ==
  ASSUME IInv, [Next]_vars
  PROVE  CancelInv'
<1> USE DEF IInv, TypeOK, CancelInv, NoSpuriousAbort
<1>1. CASE ReaderNext
  BY <1>1 DEF ReaderNext, ReadLine, ReadEof
<1>2. CASE HandleReply \/ HandleLog \/ HandlePosition \/ HandleOverhead
  BY <1>2 DEF HandleReply, HandleLog, HandlePosition, HandleOverhead, Receive
<1>3. CASE StartJoining \/ StartStopping
  <2>1. /\ cancelled' = cancelled \cup Held
        /\ Held # {} => stop' = TRUE
        /\ stop' \in {stop, TRUE}
        /\ pc = "recv" /\ UNCHANGED <<spawned, worker, ended>>
    BY <1>3 DEF StartJoining, JoinInFlightWorker, StartStopping, StopAndJoin,
                Join, Receive
  <2>2. \A i \in Workers : worker[i] \in {"unspawned", "done"} \/ i \in Held
    BY <2>1, BoundsAssumption DEF OwnerInv, Held, Workers
  <2> QED BY <2>1, <2>2 DEF Held, OwnerInv
<1>4. CASE Go
  <2>1. spawned + 1 \in Workers /\ spawned + 1 \notin cancelled
    BY <1>4, TypePreserved DEF Go
  <2>2. \A i \in Workers : worker'[i] = IF i = spawned + 1 THEN "spawned" ELSE worker[i]
    BY <1>4 DEF Go
  <2>3. \A i \in Workers : worker[i] \in {"unspawned", "done"}
    BY <1>4, NoneLive DEF Go
  <2>4. UNCHANGED <<cancelled, ended>> /\ stop' = FALSE /\ spawned' = spawned + 1
    BY <1>4 DEF Go, FreshFlag
  <2>5. \A i \in cancelled : i <= spawned + 1
    OBVIOUS
  <2> QED BY <2>1, <2>2, <2>3, <2>4, <2>5
<1>5. CASE Joined \/ Stopped \/ SetSeed \/ SetParams \/ Exit
  BY <1>5 DEF Joined, Stopped, SetSeed, SetParams, Exit
<1>6. CASE SetHash \/ ResetFields \/ ResetSearch \/ BenchSearch \/ BenchDone
  BY <1>6, NoneLive DEF SetHash, ResetFields, ResetSearch, BenchSearch, BenchDone
<1>7. ASSUME NEW i \in Workers, WorkerNext(i) PROVE CancelInv'
  <2>1. /\ \A j \in Workers \ {i} : worker'[j] = worker[j] /\ ended'[j] = ended[j]
        /\ worker'[i] \in {"spawned", "searching", "waiting"}
             => worker[i] \in {"spawned", "searching", "waiting"}
        /\ ended'[i] = "stopped" =>
             \/ ended[i] = "stopped"
             \/ stop /\ worker[i] \in {"searching", "waiting"}
        /\ UNCHANGED <<spawned, stop, cancelled>>
    BY <1>7 DEF WorkerNext, WorkerStart, WorkerIterate, WorkerComplete, WorkerAbort,
                WorkerUnlock, WorkerReport, WorkerGoes
  <2> QED BY <2>1
<1>8. CASE UNCHANGED vars
  BY <1>8
<1> QED
  BY <1>1, <1>2, <1>3, <1>4, <1>5, <1>6, <1>7, <1>8
  DEF Next, OrchestratorNext, Terminated

LEMMA SettingsPreserved ==
  ASSUME IInv, [Next]_vars
  PROVE  SettingsInv'
<1> USE DEF IInv, TypeOK, SettingsInv, SearchSeesItsGo
<1>1. CASE ReaderNext
  BY <1>1 DEF ReaderNext, ReadLine, ReadEof
<1>2. CASE HandleReply \/ HandleLog \/ HandlePosition \/ HandleOverhead
  BY <1>2 DEF HandleReply, HandleLog, HandlePosition, HandleOverhead, Receive
<1>3. CASE StartJoining \/ StartStopping
  BY <1>3 DEF StartJoining, StartStopping
<1>4. CASE Go
  <2>1. spawned + 1 \in Workers
    BY <1>4, TypePreserved DEF Go
  <2>2. \A i \in Workers :
          /\ worker'[i] = IF i = spawned + 1 THEN "spawned" ELSE worker[i]
          /\ i # spawned + 1 => job'[i] = job[i]
    BY <1>4 DEF Go
  <2>3. job'[spawned + 1].params = params
    BY <1>4, <2>1 DEF Go
  <2> QED BY <1>4, <2>1, <2>2, <2>3 DEF Go
<1>5. CASE Joined \/ Stopped \/ SetHash \/ SetSeed \/ Exit
  BY <1>5 DEF Joined, Stopped, SetHash, SetSeed, Exit
<1>6. CASE SetParams
  BY <1>6, NoneLive DEF SetParams
<1>7. CASE ResetFields \/ ResetSearch \/ BenchSearch \/ BenchDone
  BY <1>7 DEF ResetFields, ResetSearch, BenchSearch, BenchDone
<1>8. ASSUME NEW i \in Workers, WorkerNext(i) PROVE SettingsInv'
  <2>1. CASE WorkerStart(i)
    <3>1. job[i] \in Jobs
      BY DEF IInv, TypeOK
    <3>2. [job[i] EXCEPT !.params = job[i].params] = job[i]
      BY <3>1 DEF Jobs
    <3>3. used'[i] = job[i]
      BY <2>1, <3>2 DEF WorkerStart, WorkerGoes
    <3> QED BY <2>1, <3>3 DEF WorkerStart, WorkerGoes
  <2>2. CASE ~WorkerStart(i)
    BY <1>8, <2>2 DEF WorkerNext, WorkerIterate, WorkerComplete, WorkerAbort,
                      WorkerUnlock, WorkerReport, WorkerGoes
  <2> QED BY <2>1, <2>2
<1>9. CASE UNCHANGED vars
  BY <1>9
<1> QED
  BY <1>1, <1>2, <1>3, <1>4, <1>5, <1>6, <1>7, <1>8, <1>9
  DEF Next, OrchestratorNext, Terminated

LEMMA GamePreserved ==
  ASSUME IInv, [Next]_vars
  PROVE  GameInv'
<1> USE DEF IInv, TypeOK, GameInv, Workers
<1>1. CASE ReaderNext
  BY <1>1 DEF ReaderNext, ReadLine, ReadEof
<1>2. CASE HandleReply \/ HandleLog \/ HandlePosition \/ HandleOverhead
  BY <1>2 DEF HandleReply, HandleLog, HandlePosition, HandleOverhead, Receive
<1>3. CASE StartJoining \/ StartStopping
  BY <1>3 DEF StartJoining, JoinInFlightWorker, StartStopping, StopAndJoin,
              Join, Receive
<1>4. CASE Go
  <2>1. spawned + 1 \in Workers
    BY <1>4, TypePreserved DEF Go
  <2>2. \A i \in Workers : worker'[i] = IF i = spawned + 1 THEN "spawned" ELSE worker[i]
    BY <1>4 DEF Go
  <2> QED BY <1>4, <2>1, <2>2 DEF Go, Return
<1>5. CASE Joined \/ Stopped \/ SetHash \/ SetSeed \/ SetParams \/ Exit
  BY <1>5 DEF Joined, Stopped, SetHash, SetSeed, SetParams, Exit, Return
<1>6. CASE ResetFields
  BY <1>6, NoneLive DEF ResetFields
<1>7. CASE ResetSearch
  BY <1>7, NoneLive DEF ResetSearch, MemoryAfterReset, Return
<1>8. CASE BenchSearch \/ BenchDone
  BY <1>8 DEF BenchSearch, BenchDone, Return
<1>9. ASSUME NEW i \in Workers, WorkerNext(i) PROVE GameInv'
  <2>1. /\ worker[i] \notin {"unspawned", "done"}
        /\ \A j \in Workers \ {i} : worker'[j] = worker[j]
        /\ tt' \in {tt, tt \cup {i}} /\ memory' \in {memory, memory \cup {i}}
        /\ UNCHANGED <<pc, resetAt, spawned>>
    BY <1>9 DEF WorkerNext, WorkerStart, WorkerIterate, WorkerComplete, WorkerAbort,
                WorkerUnlock, WorkerReport, WorkerGoes
  <2>2. pc \in {"recv", "join"}
    BY <2>1, NoneLive
  <2> QED BY <2>1, <2>2
<1>10. CASE UNCHANGED vars
  BY <1>10
<1> QED
  BY <1>1, <1>2, <1>3, <1>4, <1>5, <1>6, <1>7, <1>8, <1>9, <1>10
  DEF Next, OrchestratorNext, Terminated

LEMMA InitEstablishes == Init => IInv
<1> SUFFICES ASSUME Init PROVE IInv
  OBVIOUS
<1> USE BoundsAssumption DEF Init, Workers
<1>1. TypeOK
  <2>1. NoJob \in Jobs
    BY DEF NoJob, Jobs, Kinds
  <2>2. channel \in Seq(AllCommands)
    BY EmptySeq
  <2>3. out \in Seq([line : {"info", "bestmove"}, go : Workers])
    BY EmptySeq
  <2>4. worker \in [Workers -> WorkerStates]
    BY DEF WorkerStates
  <2>5. job \in [Workers -> Jobs] /\ used \in [Workers -> Jobs]
    BY <2>1
  <2>6. ended \in [Workers -> {"none", "complete", "stopped"}]
    OBVIOUS
  <2>7. /\ lines \in 0 .. MaxLines /\ benchLeft \in 0 .. NBench
        /\ spawned \in 0 .. MaxLines /\ resetAt \in 0 .. MaxLines
    OBVIOUS
  <2>8. tt \subseteq Workers \cup {None} /\ memory \subseteq Workers \cup {None}
        /\ cancelled \subseteq Workers
    OBVIOUS
  <2> QED BY <2>2, <2>3, <2>4, <2>5, <2>6, <2>7, <2>8 DEF TypeOK, Orchestrator
<1>2. ReaderInv
  BY EmptySeq DEF ReaderInv
<1>3. HandlerInv
  BY DEF HandlerInv, NoCommand
<1>4. OwnerInv /\ MutexInv /\ CancelInv /\ SettingsInv /\ GameInv
  BY DEF OwnerInv, MutexInv, Orchestrator, CancelInv, NoSpuriousAbort, SettingsInv,
         SearchSeesItsGo, GameInv
<1> QED BY <1>1, <1>2, <1>3, <1>4 DEF IInv

(***************************************************************************)
(* The strengthened invariant holds in every reachable state.              *)
(***************************************************************************)
THEOREM Invariance == Spec => []IInv
<1>1. IInv /\ [Next]_vars => IInv'
  BY TypePreserved, ReaderPreserved, HandlerPreserved, OwnerPreserved,
     MutexPreserved, CancelPreserved, SettingsPreserved, GamePreserved DEF IInv
<1> QED BY <1>1, InitEstablishes, PTL DEF Spec

\* Every variable keeps its type.
THEOREM TypeCorrect == Spec => []TypeOK
  BY Invariance, PTL DEF IInv

\* The table has one mutator at a time: two searches would both hold the
\* mutex, and no worker is live in a handler that writes the table.
THEOREM TableHasOneMutator == Spec => []SingleMutator
<1>1. IInv => SingleMutator
  <2> SUFFICES ASSUME IInv PROVE SingleMutator
    OBVIOUS
  <2>1. \A i, j \in Searching : i = j
    BY DEF IInv, MutexInv, Searching
  <2>2. OrchestratorMutates => Searching = {}
    BY NoneLive DEF OrchestratorMutates, Searching
  <2> QED BY <2>1, <2>2 DEF SingleMutator
<1> QED BY <1>1, Invariance, PTL

\* Once cancelled, a search finds the flag up until it has seen it, and it
\* is cut short only by a cancellation that came after its go.
THEOREM StopsAreExact == Spec => []StopIsExact
<1>1. IInv => StopNotLost
  BY DEF IInv, TypeOK, CancelInv, StopNotLost
<1>2. IInv => NoSpuriousAbort
  BY DEF IInv, CancelInv
<1> QED BY <1>1, <1>2, Invariance, PTL DEF StopIsExact

\* A search runs with the settings in force when its go was handled.
THEOREM SearchSettings == Spec => []SearchSeesItsGo
  BY Invariance, PTL DEF IInv, SettingsInv

\* No search sees what an earlier game left, and bench starts from nothing.
THEOREM GamesAreSeparate == Spec => []GamesDoNotMix
<1>1. IInv => GamesDoNotMix
  <2> SUFFICES ASSUME IInv PROVE GamesDoNotMix
    OBVIOUS
  <2>1. Searching # {} => pc # "resetSearch"
    BY NoneLive DEF Searching
  <2> QED BY <2>1 DEF IInv, GameInv, GamesDoNotMix
<1> QED BY <1>1, Invariance, PTL

\* The orchestrator never waits on a disconnected channel.
THEOREM ChannelOutlivesRun == Spec => []RecvNeverDisconnected
<1>1. IInv => RecvNeverDisconnected
  BY DEF IInv, ReaderInv, HandlerInv, NoCommand, RecvNeverDisconnected
<1> QED BY <1>1, Invariance, PTL

-----------------------------------------------------------------------------
\* The search that the GUI sees, where the handles are.
LEMMA RunningIs ==
  ASSUME IInv
  PROVE  /\ \A i, j \in Live : i = j
         /\ Live = {} => Running = 0
         /\ \A i \in Live : Running = i
         /\ 0 \notin Live
<1>1. \A i, j \in Live : i = j
  BY BoundsAssumption DEF IInv, TypeOK, OwnerInv, Live, Workers
<1>2. 0 \notin Live
  BY BoundsAssumption DEF Live, Workers
<1>3. Live = {} => Running = 0
  BY DEF Running
<1>4. ASSUME NEW i \in Live PROVE Running = i
  <2>1. (CHOOSE k \in Live : TRUE) \in Live
    BY <1>4
  <2>2. Running = CHOOSE k \in Live : TRUE
    BY <1>4 DEF Running
  <2> QED BY <1>1, <1>4, <2>1, <2>2
<1> QED BY <1>1, <1>2, <1>3, <1>4

LEMMA RunningStays ==
  ASSUME IInv, Live' = Live
  PROVE  Running' = Running
<1>1. (CHOOSE k \in Live' : TRUE) = (CHOOSE k \in Live : TRUE)
  OBVIOUS
<1> QED BY <1>1 DEF Running

PVars == <<Running, MustEnd, spawned, out, pc = "exited">>

\* What neither starts nor ends a search, nor cancels one, is not seen.
LEMMA Unseen ==
  ASSUME IInv, Live' = Live, UNCHANGED <<job, cancelled, spawned, out>>,
         pc = "exited" <=> pc' = "exited"
  PROVE  UNCHANGED PVars
<1>1. Running' = Running
  BY RunningStays
<1>2. MustEnd' = MustEnd
  BY <1>1 DEF MustEnd
<1> QED BY <1>1, <1>2 DEF PVars

(***************************************************************************)
(* One search at a time: a go is accepted only when the one before it was  *)
(* answered, every line is that of the search under way, its bestmove the  *)
(* last of them, and none is left when the process ends.                   *)
(***************************************************************************)
THEOREM ProtocolKept == Spec => Protocol!Safety
<1>1. Init => Protocol!Init
  BY DEF Init, Protocol!Init, Running, MustEnd, Live
<1>2. IInv /\ [Next]_vars => [Protocol!Next]_(Protocol!vars)
  <2> SUFFICES ASSUME IInv, [Next]_vars
               PROVE  Protocol!Next \/ UNCHANGED PVars
    BY DEF Protocol!vars, PVars
  <2>1. CASE UNCHANGED vars
    <3>1. Live' = Live
      BY <2>1 DEF Live
    <3> QED BY <2>1, <3>1, Unseen
  <2>2. CASE ReaderNext
    <3>1. UNCHANGED <<worker, job, cancelled, spawned, out, pc>>
      BY <2>2 DEF ReaderNext, ReadLine, ReadEof
    <3>2. Live' = Live
      BY <3>1 DEF Live
    <3> QED BY <3>1, <3>2, Unseen
  <2>3. CASE HandleReply \/ HandleLog \/ HandlePosition \/ HandleOverhead \/ Joined
             \/ Stopped \/ SetHash \/ SetSeed \/ SetParams \/ ResetFields
             \/ ResetSearch \/ BenchSearch \/ BenchDone
    <3>1. UNCHANGED <<worker, job, cancelled, spawned, out>> /\ pc # "exited" /\ pc' # "exited"
      BY <2>3 DEF HandleReply, HandleLog, HandlePosition, HandleOverhead, Receive, Joined,
                  Stopped, SetHash, SetSeed, SetParams, ResetFields, ResetSearch,
                  BenchSearch, BenchDone, Return
    <3>2. Live' = Live
      BY <3>1 DEF Live
    <3> QED BY <3>1, <3>2, Unseen
  <2>4. CASE StartJoining \/ StartStopping
    <3>1. /\ UNCHANGED <<worker, job, spawned, out>> /\ pc = "recv" /\ pc' = "join"
          /\ cancelled' = cancelled \cup Held
      BY <2>4 DEF StartJoining, StartStopping, Receive, JoinInFlightWorker, StopAndJoin, Join
    <3>2. Live' = Live
      BY <3>1 DEF Live
    <3>3. Running' = Running
      BY <3>2, RunningStays
    <3>4. CASE Live = {}
      <4>1. Running = 0
        BY <3>4, RunningIs
      <4>2. ~MustEnd /\ ~MustEnd'
        BY <3>3, <4>1 DEF MustEnd
      <4>3. MustEnd' = MustEnd
        BY <4>2 DEF MustEnd
      <4> QED BY <3>1, <3>3, <4>3 DEF PVars
    <3>5. CASE Live # {}
      <4>1. PICK i \in Live : TRUE
        BY <3>5
      <4>2. Running = i /\ i # 0
        BY <4>1, RunningIs
      <4>3. i \in Held
        BY <3>1, <4>1, <4>2 DEF IInv, OwnerInv, Live, Held
      <4>4. MustEnd' = TRUE
        BY <3>1, <3>3, <4>2, <4>3 DEF MustEnd
      <4> QED BY <3>1, <3>3, <4>2, <4>4 DEF Protocol!Cancel, Protocol!Next
    <3> QED BY <3>4, <3>5
  <2>5. CASE Go
    <3>1. /\ pc = "act" /\ pc' = "recv" /\ spawned' = spawned + 1 /\ UNCHANGED out
          /\ worker' = [worker EXCEPT ![spawned + 1] = "spawned"]
      BY <2>5 DEF Go, Return
    <3>2. Live = {}
      BY <3>1, NoneLive DEF Live
    <3>3. spawned + 1 \in Workers
      BY <2>5, QuitIsCommand, BoundsAssumption DEF Go, IInv, TypeOK, ReaderInv, Workers
    <3>4. spawned + 1 \in Live'
      BY <3>1, <3>3 DEF IInv, TypeOK, Live
    <3>5. Running' = spawned + 1
      <4>1. \A j \in Live' : j = spawned + 1
        BY <3>1, <3>2, <3>3 DEF IInv, TypeOK, Live
      <4>2. Live' = {spawned + 1}
        BY <3>4, <4>1
      <4> QED BY <4>2 DEF Running
    <3>6. Running = 0
      BY <3>2, RunningIs
    <3>7. MustEnd' \in BOOLEAN
      BY DEF MustEnd
    <3> QED BY <3>1, <3>5, <3>6, <3>7 DEF Protocol!Accept, Protocol!Next
  <2>6. CASE Exit
    <3>1. /\ pc = "act" /\ pc' = "exited"
          /\ UNCHANGED <<worker, job, cancelled, spawned, out>>
      BY <2>6 DEF Exit
    <3>2. Live = {} /\ Live' = Live
      BY <3>1, NoneLive DEF Live
    <3>3. Running = 0 /\ Running' = 0
      BY <3>2, RunningIs, RunningStays
    <3>4. MustEnd' = MustEnd
      BY <3>3 DEF MustEnd
    <3> QED BY <3>1, <3>3, <3>4 DEF Protocol!End, Protocol!Next
  <2>7. ASSUME NEW i \in Workers, WorkerNext(i)
        PROVE  Protocol!Next \/ UNCHANGED PVars
    <3>1. UNCHANGED <<job, cancelled, spawned, pc>>
      BY <2>7 DEF WorkerNext, WorkerStart, WorkerIterate, WorkerComplete, WorkerAbort,
                  WorkerUnlock, WorkerReport, WorkerGoes
    <3>2. i \in Live
      BY <2>7 DEF WorkerNext, WorkerStart, WorkerIterate, WorkerComplete, WorkerAbort,
                  WorkerUnlock, WorkerReport, WorkerGoes, Live
    <3>3. Running = i /\ i # 0
      BY <3>2, RunningIs
    <3>4. ASSUME WorkerStart(i) \/ WorkerIterate(i) \/ WorkerComplete(i) \/ WorkerAbort(i)
                   \/ WorkerUnlock(i)
          PROVE  Live' = Live
      <4>1. PICK s \in WorkerStates \ {"unspawned", "done"} :
              worker' = [worker EXCEPT ![i] = s]
        BY <3>4 DEF WorkerStart, WorkerIterate, WorkerComplete, WorkerAbort, WorkerUnlock,
                    WorkerGoes, WorkerStates
      <4> QED BY <3>2, <4>1 DEF IInv, TypeOK, Live
    <3>5. CASE WorkerStart(i) \/ WorkerComplete(i) \/ WorkerAbort(i) \/ WorkerUnlock(i)
      <4>1. UNCHANGED out
        BY <3>5 DEF WorkerStart, WorkerComplete, WorkerAbort, WorkerUnlock
      <4> QED BY <3>1, <3>4, <3>5, <4>1, Unseen
    <3>6. CASE WorkerIterate(i)
      <4>1. out' = Append(out, [line |-> "info", go |-> i])
        BY <3>6 DEF WorkerIterate, Info
      <4>2. Running' = Running
        BY <3>4, <3>6, RunningStays
      <4>3. MustEnd' = MustEnd
        BY <3>1, <4>2 DEF MustEnd
      <4> QED BY <3>1, <3>3, <4>1, <4>2, <4>3 DEF Protocol!Inform, Protocol!Next
    <3>7. CASE WorkerReport(i)
      <4>1. /\ out' = Append(out, [line |-> "bestmove", go |-> i])
            /\ worker' = [worker EXCEPT ![i] = "done"]
        BY <3>7 DEF WorkerReport, WorkerGoes, Bestmove
      <4>2. \A j \in Live : j = i
        BY <3>2, RunningIs
      <4>3. Live' = {}
        BY <4>1, <4>2 DEF IInv, TypeOK, Live
      <4>4. Running' = 0
        BY <4>3 DEF Running
      <4>5. MustEnd' = FALSE
        BY <4>4 DEF MustEnd
      <4> QED BY <3>1, <3>3, <4>1, <4>4, <4>5 DEF Protocol!Answer, Protocol!Next
    <3> QED BY <2>7, <3>5, <3>6, <3>7 DEF WorkerNext
  <2>8. CASE Terminated
    BY <2>1, <2>8 DEF Terminated
  <2> QED BY <2>1, <2>2, <2>3, <2>4, <2>5, <2>6, <2>7, <2>8 DEF Next, OrchestratorNext
<1> QED BY <1>1, <1>2, Invariance, PTL DEF Spec, Protocol!Safety
=============================================================================
