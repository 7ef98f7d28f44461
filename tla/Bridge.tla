------------------------------- MODULE Bridge -------------------------------
(***************************************************************************)
(* CleanRoomGodotBridge: a server on a Unix socket of the workspace.  Each *)
(* bridge object has a ledger handle; each connection has a thread on the  *)
(* server that reads chunks of newline-delimited requests and answers them *)
(* in order through handle(), over the one handle of its bridge.           *)
(*                                                                         *)
(* An event of the ledger is named by the request that leaves it.  Ping,   *)
(* recall, shape checks, similarities and all requests that are refused    *)
(* are "other": they change nothing and are answered at once.  A chunk may *)
(* hold any number of lines, none when it ends within the first.  Threads  *)
(* are daemon threads: the end of the process kills them where they are.   *)
(***************************************************************************)
EXTENDS Ledger

CONSTANTS
  Op,            \* the operation a request asks for
  WithManifest,  \* the packages of skill_run whose manifest is an object
  NoBridge,      \* no socket file
  MaxSent        \* bound on the requests of all clients

Ops == {"append", "remember", "skill", "verify", "other"}

\* The operations that leave an entry.
Recording == {"append", "remember", "skill"}

ASSUME OpAssumption == \A r \in Events : Op[r] \in Ops
ASSUME SentAssumption == MaxSent \in Nat
ASSUME NoBridgeAssumption == NoBridge \notin Handles

VARIABLES
  stopping,  \* the bridges whose _stop is set
  serving,   \* the bridges that listen
  path,      \* the bridge whose socket file is at socket_path
  conn,      \* where a connection's thread is in _client_loop
  sent,      \* the requests sent on a connection
  got,       \* how many of them its thread has received
  answers,   \* the "ok" of its answers
  work,      \* how far the thread is in handle()
  effects,   \* the requests whose episode is stored or whose payload ran
  careful,   \* history: bridges and clients took turns, nobody was killed at work
  late       \* history: chunks received since the bridge was stopped

sockets == <<stopping, serving, path>>

wires == <<conn, sent, got>>

handling == <<answers, work, effects>>

bridgeVars == <<vars, sockets, wires, handling, careful, late>>

Work(stage, ok, lines) == [stage |-> stage, ok |-> ok, lines |-> lines]

Ready == Work("ready", TRUE, 0)

BridgeTypeOK ==
  /\ TypeOK
  /\ stopping \subseteq Handles
  /\ serving \subseteq open
  /\ path \in Handles \cup {NoBridge}
  /\ conn \in [Threads -> {"none", "top", "receiving", "serving", "closed"}]
  /\ sent \in [Threads -> Seq(Events)]
  /\ got \in [Threads -> Nat]
  /\ answers \in [Threads -> Seq(BOOLEAN)]
  /\ \A t \in Threads : Len(answers[t]) <= got[t] /\ got[t] <= Len(sent[t])
  /\ work \in [Threads -> [stage : {"ready", "acted", "recording", "reading"},
                           ok : BOOLEAN, lines : Nat]]
  /\ \A t \in Threads : work[t].stage = "recording" <=> pc[t] # "idle"
  /\ effects \subseteq Events
  /\ careful \in BOOLEAN
  /\ late \in [Threads -> Nat]

BridgeInit ==
  /\ Init
  /\ stopping = {}
  /\ serving = {}
  /\ path = NoBridge
  /\ conn = [t \in Threads |-> "none"]
  /\ sent = [t \in Threads |-> <<>>]
  /\ got = [t \in Threads |-> 0]
  /\ answers = [t \in Threads |-> <<>>]
  /\ work = [t \in Threads |-> Ready]
  /\ effects = {}
  /\ careful = TRUE
  /\ late = [t \in Threads |-> 0]
-----------------------------------------------------------------------------
Live(t) == conn[t] \notin {"none", "closed"}

\* A bridge that was stopped and whose connections are closed.
Retired(h) == h \in stopping /\ \A t \in Threads : HandleOf[t] = h => ~Live(t)
Construct(h) ==
  /\ OpenHandle(h)
  /\ careful' = (careful /\ \A g \in open : Retired(g))
  /\ UNCHANGED <<stopping, serving, path, wires, handling, late>>

(***************************************************************************)
(* start() takes the socket path from whoever has it and clears _stop, for *)
(* the threads of connections accepted before, too.                        *)
(***************************************************************************)
Start(h) ==
  /\ h \in open
  /\ path' = h
  /\ serving' = serving \cup {h}
  /\ stopping' = stopping \ {h}
  /\ careful' = (careful /\ h \notin stopping)
  /\ late' = [t \in Threads |-> IF HandleOf[t] = h THEN 0 ELSE late[t]]
  /\ UNCHANGED <<vars, wires, handling>>

(***************************************************************************)
(* stop() unlinks whatever is at the socket path and does not wait for the *)
(* threads of the connections.                                             *)
(***************************************************************************)
Stop(h) ==
  /\ h \in open
  /\ stopping' = stopping \cup {h}
  /\ serving' = serving \ {h}
  /\ path' = NoBridge
  /\ UNCHANGED <<vars, wires, handling, careful, late>>

\* The process of a bridge ends, and its threads with it.
Kill(h) ==
  /\ Crash(h)
  /\ stopping' = stopping \ {h}
  /\ serving' = serving \ {h}
  /\ conn' = [t \in Threads |-> IF HandleOf[t] = h /\ Live(t) THEN "closed" ELSE conn[t]]
  /\ work' = [t \in Threads |-> IF HandleOf[t] = h THEN Ready ELSE work[t]]
  /\ careful' = (careful /\ InFlight(h) = {})
  /\ late' = [t \in Threads |-> IF HandleOf[t] = h THEN 0 ELSE late[t]]
  /\ UNCHANGED <<path, sent, got, answers, effects>>
-----------------------------------------------------------------------------
Requested == UNION {{sent[t][i] : i \in 1 .. Len(sent[t])} : t \in Threads}

\* A client connects, if a bridge listens behind the socket file, and sends
\* a request, or it sends one more.
Send(t, r) ==
  /\ \/ conn[t] = "none" /\ path = HandleOf[t] /\ HandleOf[t] \in serving
     \/ Live(t)
  /\ r \notin Requested
  /\ Cardinality(Requested) < MaxSent
  /\ sent' = [sent EXCEPT ![t] = Append(@, r)]
  /\ conn' = [conn EXCEPT ![t] = IF @ = "none" THEN "top" ELSE @]
  /\ UNCHANGED <<vars, sockets, got, handling, careful, late>>

\* Faulty variant: the loop does not look at _stop.
LoopForever(t) ==
  /\ conn[t] = "top"
  /\ conn' = [conn EXCEPT ![t] = "receiving"]
  /\ UNCHANGED <<vars, sockets, sent, got, handling, careful, late>>

\* while not self._stop.is_set()
Loop(t) ==
  /\ conn[t] = "top"
  /\ conn' = [conn EXCEPT ![t] = IF HandleOf[t] \in stopping THEN "closed" ELSE "receiving"]
  /\ UNCHANGED <<vars, sockets, sent, got, handling, careful, late>>

Receive(t) ==
  /\ conn[t] = "receiving"
  /\ got[t] < Len(sent[t])
  /\ \E k \in got[t] .. Len(sent[t]) :
       /\ got' = [got EXCEPT ![t] = k]
       /\ conn' = [conn EXCEPT ![t] = IF k = got[t] THEN "top" ELSE "serving"]
  /\ late' = [late EXCEPT ![t] = IF HandleOf[t] \in stopping THEN @ + 1 ELSE 0]
  /\ UNCHANGED <<vars, sockets, sent, handling, careful>>

\* The client has what it wants and hangs up.
EndOfInput(t) ==
  /\ conn[t] = "receiving"
  /\ got[t] = Len(sent[t])
  /\ conn' = [conn EXCEPT ![t] = "closed"]
  /\ UNCHANGED <<vars, sockets, sent, got, handling, careful, late>>
-----------------------------------------------------------------------------
\* The request a thread is at.
Current(t) == sent[t][Len(answers[t]) + 1]

Begins(t, op) ==
  /\ conn[t] = "serving"
  /\ work[t] = Ready
  /\ Op[Current(t)] = op

\* The clients take turns if no other thread is in handle().
TakesTurn(t) ==
  careful' = (careful /\ \A u \in Threads \ {t} : work[u] = Ready)

\* sendall() raises when the client has hung up, as it does when it has not
\* got its answer in time, and the thread ends.
Answer(t, ok) ==
  /\ answers' = [answers EXCEPT ![t] = Append(@, ok)]
  /\ work' = [work EXCEPT ![t] = Ready]
  /\ \E hungUp \in BOOLEAN :
       conn' = [conn EXCEPT ![t] = IF hungUp THEN "closed"
                                   ELSE IF Len(answers[t]) + 1 = got[t] THEN "top" ELSE "serving"]
  /\ UNCHANGED <<sent, got>>

\* The answer to such a request is not told apart; a line that is no UTF-8
\* raises what the loop does not catch, and the thread ends.
Other(t) ==
  /\ Begins(t, "other")
  /\ \/ Answer(t, TRUE)
     \/ /\ conn' = [conn EXCEPT ![t] = "closed"]
        /\ UNCHANGED <<sent, got, answers, work>>
  /\ UNCHANGED <<vars, sockets, effects, careful, late>>

\* The rest of append(), and the answer behind it.
RecordAndAnswer(t) ==
  /\ work[t].stage = "recording"
  /\ \/ /\ Link(t) \/ SealEntry(t) \/ WriteLine(t)
           \/ PublishSeq(t) \/ PublishTip(t) \/ TruncateTip(t)
        /\ UNCHANGED <<wires, answers, work>>
     \/ FillTip(t) /\ Answer(t, work[t].ok)
  /\ UNCHANGED <<sockets, effects, careful, late>>

LedgerAppend(t) ==
  /\ Begins(t, "append")
  /\ Number(t, Current(t))
  /\ work' = [work EXCEPT ![t] = Work("recording", TRUE, 0)]
  /\ TakesTurn(t)
  /\ UNCHANGED <<sockets, wires, answers, effects, late>>

\* Faulty variant: the answer does not wait for the entry.
RememberAnswered(t) ==
  /\ Begins(t, "remember")
  /\ effects' = effects \cup {Current(t)}
  /\ Answer(t, TRUE)
  /\ TakesTurn(t)
  /\ UNCHANGED <<vars, sockets, late>>

MemoryRemember(t) ==
  /\ Begins(t, "remember")
  /\ effects' = effects \cup {Current(t)}
  /\ work' = [work EXCEPT ![t] = Work("acted", TRUE, 0)]
  /\ TakesTurn(t)
  /\ UNCHANGED <<vars, sockets, wires, answers, late>>

\* remember() raises, before or after the episode is stored.
RememberRaises(t) ==
  /\ Begins(t, "remember")
  /\ effects' \in {effects, effects \cup {Current(t)}}
  /\ Answer(t, FALSE)
  /\ UNCHANGED <<vars, sockets, careful, late>>

\* A manifest that is no object makes the entry raise, after the payload ran.
SkillRun(t) ==
  /\ Begins(t, "skill")
  /\ TakesTurn(t)
  /\ \E pass \in BOOLEAN :
       /\ effects' = IF pass THEN effects \cup {Current(t)} ELSE effects
       /\ IF Current(t) \in WithManifest
          THEN work' = [work EXCEPT ![t] = Work("acted", pass, 0)] /\ UNCHANGED <<wires, answers>>
          ELSE Answer(t, FALSE)
  /\ UNCHANGED <<vars, sockets, late>>

Record(t) ==
  /\ work[t].stage = "acted"
  /\ Number(t, Current(t))
  /\ work' = [work EXCEPT ![t].stage = "recording"]
  /\ UNCHANGED <<sockets, wires, answers, effects, careful, late>>

\* verify_chain walks the lines that are in the file now ...
LedgerVerify(t) ==
  /\ Begins(t, "verify")
  /\ work' = [work EXCEPT ![t] = Work("reading", WalkOk, Len(log))]
  /\ TakesTurn(t)
  /\ UNCHANGED <<vars, sockets, wires, answers, effects, late>>

\* ... and compares the last of them with the tip later; the answer's "ok" is
\* the verdict.
Verdict(t) ==
  /\ work[t].stage = "reading"
  /\ LET n == work[t].lines IN
       Answer(t, work[t].ok /\ (n > 0 => log[n].hash = cache[HandleOf[t]].hash))
  /\ UNCHANGED <<vars, sockets, effects, careful, late>>

BridgeNext ==
  \/ \E h \in Handles : Construct(h) \/ Start(h) \/ Stop(h) \/ Kill(h)
  \/ \E t \in Threads :
       \/ \E r \in Events : Send(t, r)
       \/ Loop(t) \/ Receive(t) \/ EndOfInput(t)
       \/ Other(t) \/ RecordAndAnswer(t) \/ LedgerAppend(t)
       \/ MemoryRemember(t) \/ RememberRaises(t) \/ SkillRun(t) \/ Record(t)
       \/ LedgerVerify(t) \/ Verdict(t)

BridgeSpec == BridgeInit /\ [][BridgeNext]_bridgeVars
-----------------------------------------------------------------------------
LinesOf(r) == {i \in 1 .. Len(log) : log[i].event = r}

Answered(r, ok) ==
  \E t \in Threads : \E i \in 1 .. Len(answers[t]) : sent[t][i] = r /\ answers[t][i] = ok

(***************************************************************************)
(* Whatever is killed, stopped or hung up, a request leaves at most one    *)
(* line, and what it stored or ran is done before its line is written; an  *)
(* answer "ok" means that both are there.  An answer that is not ok leaves *)
(* an effect without a line only where remember() raised or the manifest   *)
(* is no object.                                                           *)
(***************************************************************************)
AnswersAreTrue ==
  \A r \in Events :
    /\ Cardinality(LinesOf(r)) <= 1
    /\ Op[r] = "remember" /\ LinesOf(r) # {} => r \in effects
    /\ Op[r] \in Recording /\ Answered(r, TRUE) =>
         LinesOf(r) # {} /\ (Op[r] # "append" => r \in effects)
    /\ Answered(r, FALSE) /\ r \in effects =>
         LinesOf(r) = {} /\ (Op[r] = "remember" \/ r \notin WithManifest)

(***************************************************************************)
(* Used with care the bridge never reports its own log broken, and the     *)
(* next process opens it: a bridge is constructed only when every other    *)
(* one is stopped and all its connections are closed, it is started once,  *)
(* its clients take turns and it is not killed while it appends.           *)
(***************************************************************************)
CarefulUseVerifies ==
  careful =>
    /\ WalkOk
    /\ (\A t \in Threads : pc[t] = "idle") => Reopens
    /\ \A r \in Events : Op[r] = "verify" => ~Answered(r, FALSE)

(***************************************************************************)
(* A thread that waits for input when its bridge is stopped serves at most *)
(* the one chunk it receives then.                                         *)
(***************************************************************************)
StoppedServesOneChunk == \A t \in Threads : late[t] <= 1
=============================================================================
