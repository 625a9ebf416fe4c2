---------------------------- MODULE SystemSources ----------------------------
(***************************************************************************)
(* One refresh of the system collector.  Its metadata come from nine       *)
(* sources, asked one after the other: two Redis hashes, four files, and   *)
(* three commands whose output is kept up to a limit.  A field keeps the   *)
(* first answer.  The refresh has a deadline and each command one of its   *)
(* own; a command that is killed may leave descendants that keep its       *)
(* output open, and exec.Cmd.Run waits for them.                           *)
(*                                                                         *)
(* What a source answers for a field is Good, Bad (asic_count: no integer; *)
(* uptime: no number or a negative one), Cut (the output ended inside it)  *)
(* or Blank (absent, empty, "N/A", "null").                                *)
(***************************************************************************)
EXTENDS Naturals, Sequences, FiniteSets

CONSTANTS Fields,          \* the fields of systemMetadata that are looked at
          Good, Bad, Cut, Blank,
          Nil,             \* a field not filled yet
          Unknown,         \* the label "unknown", the uptime 0
          Timeout,         \* SYSTEM_TIMEOUT
          CommandTimeout,  \* SYSTEM_COMMAND_TIMEOUT
          RedisTime,       \* bound: how long a Redis command takes
          MaxLinger,       \* bound: how long descendants keep the output open
          Configs,         \* SYSTEM_COMMAND_ENABLED, _MAX_OUTPUT_BYTES
          TailBytes,       \* what show version prints after its last field
          Worlds,          \* what the sources answer when the exporter starts
          MaxFailures,     \* bound: sources that fail by themselves in a refresh
          MaxChanges       \* bound: how often an answer changes

ASSUME TimesAssumption ==
  /\ Timeout \in Nat \ {0} /\ CommandTimeout \in Nat \ {0}
  /\ RedisTime \in Nat /\ MaxLinger \in Nat
  /\ TailBytes \in Nat /\ MaxFailures \in Nat /\ MaxChanges \in Nat

\* parseIntEnv refuses a limit below 1.
ASSUME ConfigsAssumption == Configs \subseteq [commands : BOOLEAN, maxBytes : Nat \ {0}]

ASSUME ValuesAssumption ==
  /\ Cardinality({Good, Bad, Cut, Blank}) = 4
  /\ IsFiniteSet(Fields)

-----------------------------------------------------------------------------
(* The sources, in the order they are asked, and the fields of each.       *)

RedisHashes == {"deviceMetadata", "chassisInfo"}
Files       == {"versionFile", "machineConf", "hostnameFile", "uptimeFile"}
Commands    == {"platformSummary", "showVersion", "syseeprom"}
Sources     == RedisHashes \cup Files \cup Commands

\* A field not filled yet can be told from one that is.
ASSUME NilAssumption == Nil \notin [from : Sources, answer : {Good, Bad, Cut}]

Order ==
  <<"deviceMetadata", "chassisInfo", "versionFile", "machineConf", "hostnameFile",
    "uptimeFile", "platformSummary", "showVersion", "syseeprom">>

\* What each answers; a command prints its answers in this order.

Names ==
  [deviceMetadata  |-> <<"hostname", "platform", "hwsku">>,
   chassisInfo     |-> <<"serial", "model", "revision">>,
   versionFile     |-> <<"sonicVersion", "sonicOS", "debianVersion", "kernelVersion", "asic",
                         "asicCount", "buildCommit", "buildDate", "builtBy", "branch",
                         "release">>,
   machineConf     |-> <<"platform">>,
   hostnameFile    |-> <<"hostname">>,
   uptimeFile      |-> <<"uptime">>,
   platformSummary |-> <<"platform", "hwsku", "asic", "asicCount", "serial", "model",
                         "revision">>,
   showVersion     |-> <<"sonicVersion", "sonicOS", "debianVersion", "kernelVersion",
                         "buildCommit", "buildDate", "builtBy", "platform", "hwsku", "asic",
                         "asicCount", "serial", "model", "revision">>,
   syseeprom       |-> <<"serial", "model", "revision">>]

FieldsOf(s) == {Names[s][i] : i \in DOMAIN Names[s]} \cap Fields

ASSUME WorldsAssumption == Worlds \subseteq [Sources -> [Fields -> {Good, Bad, Blank}]]

Answers(f) == {Good, Blank} \cup (IF f \in {"asicCount", "uptime"} THEN {Bad} ELSE {})

VARIABLES world,      \* world[s][f]: what s answers for f now
          changes,    \* how often an answer has changed
          config,
          position,   \* in Order
          done,
          metadata,   \* Nil, or the source of the field and its answer
          published,  \* the labels of the series scrapeMetrics returns
          now,        \* time since the refresh began
          command,    \* none, running, exited (status 0), failed, killed
          deadline,   \* of cmdCtx
          linger,     \* how long its output stays open after its end
          printed,    \* what the command had to print
          written,    \* bytes handed to limitedOutputBuffer
          kept,       \* bytes in it
          truncated,
          down,       \* history: the sources that gave an error
          changed     \* history: an answer changed during this refresh

outside == <<world, changes, config>>
process == <<command, deadline, linger, printed, written, kept, truncated>>
history == <<down, changed>>
vars    == <<outside, position, done, metadata, published, now, process, history>>

Filled == [from : Sources, answer : {Good, Bad, Cut}]

TypeOK ==
  /\ world \in [Sources -> [Fields -> {Good, Bad, Blank}]]
  /\ changes \in 0 .. MaxChanges
  /\ config \in Configs
  /\ position \in 1 .. Len(Order) + 1
  /\ done \in BOOLEAN
  /\ metadata \in [Fields -> Filled \cup {Nil}]
  /\ published \in [Fields -> [from : Sources, answer : {Good, Cut}] \cup {Unknown}]
  /\ now \in Nat /\ deadline \in 0 .. Timeout
  /\ command \in {"none", "running", "exited", "failed", "killed"}
  /\ linger \in 0 .. MaxLinger
  /\ printed \in [Fields -> {Good, Bad, Blank}]
  /\ written \in Nat
  /\ kept \in 0 .. config.maxBytes
  /\ truncated \in BOOLEAN
  /\ down \subseteq Sources
  /\ changed \in BOOLEAN

NoOutput == [f \in Fields |-> Blank]

Init ==
  /\ world \in Worlds /\ changes = 0
  /\ config \in Configs
  /\ position = 1 /\ done = FALSE
  /\ metadata = [f \in Fields |-> Nil]
  /\ published = [f \in Fields |-> Unknown]
  /\ now = 0
  /\ command = "none" /\ deadline = 0 /\ linger = 0
  /\ printed = NoOutput /\ written = 0 /\ kept = 0 /\ truncated = FALSE
  /\ down = {} /\ changed = FALSE

Asked == Order[position]

Asks(kind) ==
  /\ ~done
  /\ position <= Len(Order)
  /\ Asked \in kind

-----------------------------------------------------------------------------
(* A field keeps the first answer.                                         *)

SetIfEmpty(m, s, answers) ==
  [f \in Fields |->
     IF f \in FieldsOf(s) /\ answers[f] # Blank /\ m[f] = Nil
     THEN [from |-> s, answer |-> answers[f]] ELSE m[f]]

\* The answers of Asked are taken, and the next source is asked.
Take(answers) ==
  /\ metadata' = SetIfEmpty(metadata, Asked, answers)
  /\ position' = position + 1
  /\ UNCHANGED down

\* A source may fail; it has to when the deadline of the refresh is over.
MayFail == Cardinality(down) < MaxFailures \/ now >= Timeout

\* An error is logged, and the next source is asked.
PassOver ==
  /\ down' = down \cup {Asked}
  /\ position' = position + 1
  /\ UNCHANGED metadata

\* HgetAllFromDb: no command is sent after the deadline of the refresh.
ReadHash ==
  /\ Asks(RedisHashes)
  /\ now < Timeout
  /\ \E d \in 0 .. RedisTime : now' = now + d
  /\ Take(world[Asked])
  /\ UNCHANGED <<outside, done, published, process, changed>>

HashUnavailable ==
  /\ Asks(RedisHashes)
  /\ MayFail
  /\ \E d \in 0 .. RedisTime : now' = IF now < Timeout THEN now + d ELSE now
  /\ PassOver
  /\ UNCHANGED <<outside, done, published, process, changed>>

ReadFile ==
  /\ Asks(Files)
  /\ Take(world[Asked])
  /\ UNCHANGED <<outside, done, published, now, process, changed>>

FileUnavailable ==
  /\ Asks(Files)
  /\ Cardinality(down) < MaxFailures
  /\ PassOver
  /\ UNCHANGED <<outside, done, published, now, process, changed>>

-----------------------------------------------------------------------------
(* The commands.                                                           *)

Least(a, b) == IF a <= b THEN a ELSE b

\* MUTANT: syseeprom is asked when all three fields are missing.
NeedsAll == \A f \in {"serial", "model", "revision"} \cap Fields : metadata[f] = Nil

\* show platform syseeprom is for the fields no one else answered.
Needs == \E f \in {"serial", "model", "revision"} \cap Fields : metadata[f] = Nil

Asking ==
  /\ Asks(Commands)
  /\ command = "none"
  /\ config.commands
  /\ Asked = "syseeprom" => Needs

SkipCommand ==
  /\ Asks(Commands)
  /\ command = "none"
  /\ ~(config.commands /\ (Asked = "syseeprom" => Needs))
  /\ position' = position + 1
  /\ UNCHANGED <<outside, done, metadata, published, now, process, history>>

\* A field is a line of three bytes: its name, the first and the last of its value.
LineBytes == 3

Size(s) == LineBytes * Cardinality(FieldsOf(s)) + (IF s = "showVersion" THEN TailBytes ELSE 0)

\* MUTANT: the command's context does not come from that of the refresh.
StartDetached ==
  /\ Asking
  /\ now < Timeout
  /\ command' = "running"
  /\ deadline' = now + CommandTimeout
  /\ printed' = [f \in Fields |-> IF f \in FieldsOf(Asked) THEN world[Asked][f] ELSE Blank]
  /\ written' = 0 /\ kept' = 0 /\ truncated' = FALSE
  /\ UNCHANGED <<outside, position, done, metadata, published, now, linger, history>>

\* exec.CommandContext under a timeout of its own; Start refuses a context that
\* has ended.
Start ==
  /\ Asking
  /\ now < Timeout
  /\ command' = "running"
  /\ deadline' = Least(now + CommandTimeout, Timeout)
  /\ printed' = [f \in Fields |-> IF f \in FieldsOf(Asked) THEN world[Asked][f] ELSE Blank]
  /\ written' = 0 /\ kept' = 0 /\ truncated' = FALSE
  /\ UNCHANGED <<outside, position, done, metadata, published, now, linger, history>>

\* The context has ended, or the program cannot be started.
StartFails ==
  /\ Asking
  /\ MayFail
  /\ PassOver
  /\ UNCHANGED <<outside, done, published, now, process, changed>>

\* MUTANT: a write that does not fit is dropped as a whole.
WriteAllOrNothing(n) ==
  IF kept + n <= config.maxBytes
  THEN kept' = kept + n /\ UNCHANGED truncated
  ELSE truncated' = TRUE /\ UNCHANGED kept

\* limitedOutputBuffer.Write of n bytes: it never fails.
Write(n) ==
  IF kept >= config.maxBytes
  THEN truncated' = TRUE /\ UNCHANGED kept
  ELSE IF n > config.maxBytes - kept
       THEN truncated' = TRUE /\ kept' = kept + (config.maxBytes - kept)
       ELSE kept' = kept + n /\ UNCHANGED truncated

Output ==
  /\ command = "running"
  /\ written < Size(Asked)
  /\ \E n \in 1 .. Size(Asked) - written :
       /\ written' = written + n
       /\ Write(n)
  /\ UNCHANGED <<outside, position, done, metadata, published, now, command, deadline, linger,
                 printed, history>>

\* The command runs on, or a descendant keeps its output open.
TimePasses ==
  /\ \/ command = "running" /\ now < deadline /\ UNCHANGED linger
     \/ command \notin {"none", "running"} /\ linger > 0 /\ linger' = linger - 1
  /\ now' = now + 1
  /\ UNCHANGED <<outside, position, done, metadata, published, command, deadline, printed,
                 written, kept, truncated, history>>

\* The command exits with everything printed, exits with an error, or is killed
\* at its deadline.
End ==
  /\ command = "running"
  /\ \/ command' = "exited" /\ written = Size(Asked)
     \/ command' = "failed" /\ MayFail
     \/ command' = "killed" /\ now = deadline
  /\ linger' \in 0 .. MaxLinger
  /\ UNCHANGED <<outside, position, done, metadata, published, now, deadline, printed, written,
                 kept, truncated, history>>

\* A line the output ends in: nothing after the name, or a part of the value.
\* show version prints N/A for what it does not know, and a part of that counts.
LineOf(s, f, answer, bytes) ==
  LET place == CHOOSE j \in DOMAIN Names[s] : Names[s][j] = f
      i     == Cardinality({j \in 1 .. place : Names[s][j] \in Fields})
  IN  CASE bytes >= LineBytes * i     -> answer
        [] bytes = LineBytes * i - 1  -> IF answer = Blank /\ s = "syseeprom" THEN Blank ELSE Cut
        [] OTHER                      -> Blank

\* parseShowVersionOutput, parseSysEEPROMOutput.
Parsed(s, answers, bytes) ==
  [f \in Fields |-> IF f \in FieldsOf(s) THEN LineOf(s, f, answers[f], bytes) ELSE Blank]

\* The JSON of show platform summary is of use as a whole only.
Usable == Asked = "platformSummary" => kept = Size(Asked)

RunReturns ==
  /\ command \notin {"none", "running"}
  /\ linger = 0
  /\ IF command = "exited" /\ Usable
     THEN Take(Parsed(Asked, printed, kept))
     ELSE PassOver
  /\ command' = "none" /\ deadline' = 0
  /\ printed' = NoOutput /\ written' = 0 /\ kept' = 0 /\ truncated' = FALSE
  /\ UNCHANGED <<outside, done, published, now, linger, changed>>

-----------------------------------------------------------------------------
\* finalizeMetadata: unknown for what no one answered, and for an asic_count that
\* is no integer; an uptime that is no time is 0.
Finalized(m) ==
  [f \in Fields |-> IF m[f] = Nil THEN Unknown
                    ELSE IF m[f].answer = Bad THEN Unknown ELSE m[f]]

\* The series are published, and collector_success is 1 whatever was answered.
Publish ==
  /\ ~done
  /\ position > Len(Order)
  /\ done' = TRUE
  /\ published' = Finalized(metadata)
  /\ UNCHANGED <<outside, position, metadata, now, process, history>>

\* refreshMetrics puts the series in the cache; the next refresh starts afresh.
NextRefresh ==
  /\ done
  /\ done' = FALSE
  /\ position' = 1
  /\ metadata' = [f \in Fields |-> Nil]
  /\ published' = [f \in Fields |-> Unknown]
  /\ now' = 0
  /\ down' = {} /\ changed' = FALSE
  /\ UNCHANGED <<outside, process>>

\* A source comes to answer something else.
Change(s, f) ==
  /\ changes < MaxChanges
  /\ changes' = changes + 1
  /\ \E a \in Answers(f) \ {world[s][f]} : world' = [world EXCEPT ![s][f] = a]
  /\ changed' = TRUE
  /\ UNCHANGED <<config, position, done, metadata, published, now, process, down>>

Next ==
  \/ ReadHash \/ HashUnavailable \/ ReadFile \/ FileUnavailable
  \/ SkipCommand \/ Start \/ StartFails \/ Output \/ TimePasses \/ End \/ RunReturns
  \/ Publish \/ NextRefresh
  \/ \E s \in Sources : \E f \in FieldsOf(s) : Change(s, f)

Spec == Init /\ [][Next]_vars

-----------------------------------------------------------------------------
(* Properties.                                                             *)

\* limitedOutputBuffer keeps the first maxBytes bytes, in however many writes
\* they come, and says it was cut exactly when there were more.
BufferKeepsPrefix ==
  command # "none" =>
    /\ kept = Least(written, config.maxBytes)
    /\ truncated <=> written > config.maxBytes

\* A refresh outlives SYSTEM_TIMEOUT by at most one Redis command, or by the time
\* one command's descendants keep its output open, whatever its commands do.
RefreshBounded ==
  \/ now <= Timeout + MaxLinger
  \/ now < Timeout + RedisTime

\* What s answers for f in a refresh in which nothing changes and s gives no
\* error.
AnswerOf(s, f) ==
  IF s \in Commands
  THEN Parsed(s, world[s], Least(Size(s), config.maxBytes))[f]
  ELSE world[s][f]

\* The sources that could have answered f, syseeprom among them even when it was
\* not asked.
Answering(f) ==
  {i \in DOMAIN Order :
     LET s == Order[i]
     IN  /\ f \in FieldsOf(s)
         /\ s \notin down
         /\ s \in Commands => config.commands
         /\ AnswerOf(s, f) # Blank}

\* Every field is what the first source with an answer says, sources that fail
\* are made up for by those after them, and a field becomes unknown only when
\* none has an answer or the first one is no number; syseeprom is left out only
\* when it would not matter.
FallbackOrder ==
  done /\ ~changed =>
    \A f \in Fields :
      LET first == CHOOSE i \in Answering(f) : \A j \in Answering(f) : i <= j
      IN  published[f] =
            IF Answering(f) = {} THEN Unknown
            ELSE IF AnswerOf(Order[first], f) = Bad THEN Unknown
            ELSE [from |-> Order[first], answer |-> AnswerOf(Order[first], f)]

=============================================================================
