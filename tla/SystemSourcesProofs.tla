------------------------- MODULE SystemSourcesProofs -------------------------
(***************************************************************************)
(* Proofs about SystemSources, for any fields, answers, limits and times:  *)
(* the output buffer keeps a prefix, a refresh ends in bounded time, and a *)
(* field is what the first source with an answer says.                     *)
(***************************************************************************)
EXTENDS SystemSources, FiniteSetTheorems, TLAPS

\* A command runs only while its source is asked, and not past its deadline; what
\* it leaves behind keeps its output open for MaxLinger at most.
TimeInv ==
  /\ done => position > Len(Order)
  /\ command # "none" => position \in {7, 8, 9}
  /\ command \in {"none", "running"} => linger = 0
  /\ command = "running" => now <= deadline
  /\ command \notin {"none", "running"} => now + linger <= Timeout + MaxLinger

IInv == TypeOK /\ TimeInv /\ BufferKeepsPrefix /\ RefreshBounded

\* FallbackInv is inductive relative to IInv.

\* What the source s prints, or would.
Given(s) == [f \in Fields |-> IF f \in FieldsOf(s) THEN world[s][f] ELSE Blank]

\* A command under way prints what its source answers, all of it when it exits.
CommandInv ==
  command # "none" =>
    /\ config.commands
    /\ ~changed => printed = Given(Asked)
    /\ command = "exited" => written = Size(Asked)

\* Only sources that were asked are down.
DownInv == down \subseteq {Order[i] : i \in 1 .. position - 1}

\* A field is what the first source that was asked and has an answer says.
FieldInv(f) ==
  \/ metadata[f] = Nil /\ \A i \in Answering(f) : i >= position
  \/ \E i \in Answering(f) :
       /\ i < position /\ \A j \in Answering(f) : i <= j
       /\ metadata[f] = [from |-> Order[i], answer |-> AnswerOf(Order[i], f)]

FallbackInv ==
  /\ CommandInv /\ DownInv
  /\ done => published = Finalized(metadata)
  /\ ~changed => \A f \in Fields : FieldInv(f)

-----------------------------------------------------------------------------
(* The order, and what a parser returns.                                   *)

LEMMA OrderFacts ==
  /\ Len(Order) = 9
  /\ \A i \in 1 .. 9 : Order[i] \in Sources
  /\ \A i \in 1 .. 9 : Order[i] \in RedisHashes => i \in {1, 2}
  /\ \A i \in 1 .. 9 : Order[i] \in Files => i \in {3, 4, 5, 6}
  /\ \A i \in 1 .. 9 : Order[i] \in Commands => i \in {7, 8, 9}
  BY DEF Order, Sources, RedisHashes, Files, Commands

LEMMA ConfigType == config \in Configs => config.maxBytes \in Nat \ {0}
  BY ConfigsAssumption

LEMMA SizeType == ASSUME NEW s PROVE Size(s) \in Nat
<1>1. FieldsOf(s) \subseteq Fields
  BY DEF FieldsOf
<1>2. IsFiniteSet(FieldsOf(s))
  BY <1>1, FS_Subset, ValuesAssumption
<1>3. Cardinality(FieldsOf(s)) \in Nat
  BY <1>2, FS_CardinalityType
<1> QED
  BY <1>3, TimesAssumption DEF Size, LineBytes

LEMMA ParsedType ==
  ASSUME NEW s, NEW answers \in [Fields -> {Good, Bad, Blank}], NEW bytes
  PROVE  Parsed(s, answers, bytes) \in [Fields -> {Good, Bad, Cut, Blank}]
<1>1. \A f \in Fields : LineOf(s, f, answers[f], bytes) \in {Good, Bad, Cut, Blank}
  <2> SUFFICES ASSUME NEW f \in Fields
               PROVE  LineOf(s, f, answers[f], bytes) \in {Good, Bad, Cut, Blank}
    OBVIOUS
  <2>1. answers[f] \in {Good, Bad, Blank}
    OBVIOUS
  <2> QED
    BY <2>1 DEF LineOf
<1> QED
  BY <1>1 DEF Parsed

LEMMA SetIfEmptyType ==
  ASSUME NEW m \in [Fields -> Filled \cup {Nil}], NEW s \in Sources,
         NEW answers \in [Fields -> {Good, Bad, Cut, Blank}]
  PROVE  SetIfEmpty(m, s, answers) \in [Fields -> Filled \cup {Nil}]
  BY DEF SetIfEmpty, Filled

LEMMA FinalizedType ==
  ASSUME NEW m \in [Fields -> Filled \cup {Nil}]
  PROVE  Finalized(m) \in [Fields -> [from : Sources, answer : {Good, Cut}] \cup {Unknown}]
  BY DEF Finalized, Filled

-----------------------------------------------------------------------------
LEMMA InitIInv == Init => IInv
<1> SUFFICES ASSUME Init PROVE IInv
  OBVIOUS
<1> USE TimesAssumption, ConfigsAssumption, WorldsAssumption, OrderFacts DEF Init
<1>1. TypeOK
  <2>1. kept \in 0 .. config.maxBytes
    BY ConfigType
  <2>2. position \in 1 .. Len(Order) + 1 /\ changes \in 0 .. MaxChanges
    OBVIOUS
  <2>3. now \in Nat /\ deadline \in 0 .. Timeout /\ linger \in 0 .. MaxLinger /\ written \in Nat
    OBVIOUS
  <2>4. done \in BOOLEAN /\ truncated \in BOOLEAN /\ changed \in BOOLEAN
    BY Zenon
  <2> QED
    BY <2>1, <2>2, <2>3, <2>4 DEF TypeOK, NoOutput
<1>2. TimeInv
  BY DEF TimeInv
<1>3. BufferKeepsPrefix
  BY DEF BufferKeepsPrefix
<1>4. RefreshBounded
  BY DEF RefreshBounded
<1> QED
  BY <1>1, <1>2, <1>3, <1>4 DEF IInv

\* The steps that take the answers of Asked, or pass over it.
LEMMA TakeStep ==
  ASSUME IInv, Asks(Sources), NEW answers \in [Fields -> {Good, Bad, Cut, Blank}],
         Take(answers)
  PROVE  /\ metadata' \in [Fields -> Filled \cup {Nil}]
         /\ position' \in 1 .. Len(Order) + 1
         /\ down' \subseteq Sources
<1>1. Asked \in Sources
  BY DEF Asks
<1>2. metadata' \in [Fields -> Filled \cup {Nil}]
  BY <1>1, SetIfEmptyType DEF Take, IInv, TypeOK
<1> QED
  BY <1>2, OrderFacts DEF Take, Asks, IInv, TypeOK

LEMMA PassOverStep ==
  ASSUME IInv, Asks(Sources), PassOver
  PROVE  /\ metadata' \in [Fields -> Filled \cup {Nil}]
         /\ position' \in 1 .. Len(Order) + 1
         /\ down' \subseteq Sources
  BY OrderFacts DEF PassOver, Asks, IInv, TypeOK

\* Redis and the files are asked while no command runs.
LEMMA NoCommand ==
  ASSUME IInv, Asks(RedisHashes \cup Files)
  PROVE  command = "none" /\ ~done /\ Asks(Sources)
<1>1. position \notin {7, 8, 9}
  BY OrderFacts DEF Asks, Asked, IInv, TypeOK, RedisHashes, Files
<1> QED
  BY <1>1 DEF Asks, Sources, IInv, TimeInv

-----------------------------------------------------------------------------
(* One lemma for each kind of step.                                        *)

LEMMA HashStep == IInv /\ (ReadHash \/ HashUnavailable) => IInv'
<1> SUFFICES ASSUME IInv, ReadHash \/ HashUnavailable PROVE IInv'
  OBVIOUS
<1> USE TimesAssumption
<1>1. Asks(RedisHashes) /\ Asks(RedisHashes \cup Files)
  BY DEF ReadHash, HashUnavailable, Asks
<1>2. command = "none" /\ ~done /\ Asks(Sources)
  BY <1>1, NoCommand
<1>3. UNCHANGED <<outside, done, published, process, changed>>
  BY DEF ReadHash, HashUnavailable
<1>4. /\ metadata' \in [Fields -> Filled \cup {Nil}]
      /\ position' \in 1 .. Len(Order) + 1
      /\ down' \subseteq Sources
  <2>1. CASE ReadHash
    <3>1. Asked \in Sources
      BY <1>2 DEF Asks
    <3>2. world[Asked] \in [Fields -> {Good, Bad, Cut, Blank}]
      BY <3>1 DEF IInv, TypeOK
    <3> QED
      BY <2>1, <3>2, <1>2, TakeStep DEF ReadHash
  <2>2. CASE HashUnavailable
    BY <2>2, <1>2, PassOverStep DEF HashUnavailable
  <2> QED
    BY <2>1, <2>2
<1>5. now' \in Nat /\ (now' = now \/ now' < Timeout + RedisTime)
  <2>1. now \in Nat
    BY DEF IInv, TypeOK
  <2>2. CASE ReadHash
    <3>1. PICK d \in 0 .. RedisTime : now' = now + d
      BY <2>2 DEF ReadHash
    <3> QED
      BY <2>1, <2>2, <3>1 DEF ReadHash
  <2>3. CASE HashUnavailable
    <3>1. PICK d \in 0 .. RedisTime : now' = IF now < Timeout THEN now + d ELSE now
      BY <2>3 DEF HashUnavailable
    <3> QED
      BY <2>1, <3>1
  <2> QED
    BY <2>2, <2>3
<1>6. TypeOK'
  BY <1>3, <1>4, <1>5 DEF IInv, TypeOK, outside, process
<1>7. TimeInv'
  BY <1>2, <1>3 DEF IInv, TimeInv, process
<1>8. BufferKeepsPrefix' /\ RefreshBounded'
  BY <1>2, <1>3, <1>5 DEF IInv, BufferKeepsPrefix, RefreshBounded, process
<1> QED
  BY <1>6, <1>7, <1>8 DEF IInv

LEMMA FileStep == IInv /\ (ReadFile \/ FileUnavailable) => IInv'
<1> SUFFICES ASSUME IInv, ReadFile \/ FileUnavailable PROVE IInv'
  OBVIOUS
<1>1. Asks(Files) /\ Asks(RedisHashes \cup Files)
  BY DEF ReadFile, FileUnavailable, Asks
<1>2. command = "none" /\ ~done /\ Asks(Sources)
  BY <1>1, NoCommand
<1>3. UNCHANGED <<outside, done, published, now, process, changed>>
  BY DEF ReadFile, FileUnavailable
<1>4. /\ metadata' \in [Fields -> Filled \cup {Nil}]
      /\ position' \in 1 .. Len(Order) + 1
      /\ down' \subseteq Sources
  <2>1. CASE ReadFile
    <3>1. Asked \in Sources
      BY <1>2 DEF Asks
    <3>2. world[Asked] \in [Fields -> {Good, Bad, Cut, Blank}]
      BY <3>1 DEF IInv, TypeOK
    <3> QED
      BY <2>1, <3>2, <1>2, TakeStep DEF ReadFile
  <2>2. CASE FileUnavailable
    BY <2>2, <1>2, PassOverStep DEF FileUnavailable
  <2> QED
    BY <2>1, <2>2
<1>5. TypeOK'
  BY <1>3, <1>4 DEF IInv, TypeOK, outside, process
<1>6. TimeInv'
  BY <1>2, <1>3 DEF IInv, TimeInv, process
<1>7. BufferKeepsPrefix' /\ RefreshBounded'
  BY <1>2, <1>3 DEF IInv, BufferKeepsPrefix, RefreshBounded, process
<1> QED
  BY <1>5, <1>6, <1>7 DEF IInv

\* A command is asked only in its places.
LEMMA CommandPlace ==
  ASSUME IInv, Asks(Commands)
  PROVE  position \in {7, 8, 9} /\ Asks(Sources)
  BY OrderFacts DEF Asks, Asked, IInv, TypeOK, Sources

LEMMA NoStartStep == IInv /\ (SkipCommand \/ StartFails) => IInv'
<1> SUFFICES ASSUME IInv, SkipCommand \/ StartFails PROVE IInv'
  OBVIOUS
<1>1. command = "none" /\ ~done /\ Asks(Commands)
  BY DEF SkipCommand, StartFails, Asking, Asks
<1>2. position \in {7, 8, 9} /\ Asks(Sources)
  BY <1>1, CommandPlace
<1>3. UNCHANGED <<outside, done, published, now, process, changed>>
  BY DEF SkipCommand, StartFails, history
<1>4. /\ metadata' \in [Fields -> Filled \cup {Nil}]
      /\ position' \in 1 .. Len(Order) + 1
      /\ down' \subseteq Sources
  <2>1. CASE SkipCommand
    BY <2>1, <1>2, OrderFacts DEF SkipCommand, history, IInv, TypeOK
  <2>2. CASE StartFails
    BY <2>2, <1>2, PassOverStep DEF StartFails
  <2> QED
    BY <2>1, <2>2
<1>5. TypeOK'
  BY <1>3, <1>4 DEF IInv, TypeOK, outside, process
<1>6. TimeInv'
  BY <1>1, <1>3 DEF IInv, TimeInv, process
<1>7. BufferKeepsPrefix' /\ RefreshBounded'
  BY <1>1, <1>3 DEF IInv, BufferKeepsPrefix, RefreshBounded, process
<1> QED
  BY <1>5, <1>6, <1>7 DEF IInv

LEMMA StartStep == IInv /\ Start => IInv'
<1> SUFFICES ASSUME IInv, Start PROVE IInv'
  OBVIOUS
<1> USE TimesAssumption
<1>1. command = "none" /\ command' = "running" /\ ~done /\ linger = 0 /\ now < Timeout
  BY DEF Start, Asking, Asks, IInv, TimeInv
<1>2. position \in {7, 8, 9}
  BY CommandPlace DEF Start, Asking
<1>3. UNCHANGED <<outside, position, done, metadata, published, now, linger, history>>
  BY DEF Start
<1>4. now <= deadline' /\ deadline' \in 0 .. Timeout
  BY <1>1 DEF Start, Least, IInv, TypeOK
<1>5. printed' \in [Fields -> {Good, Bad, Blank}]
  <2>1. Asked \in Sources
    BY CommandPlace DEF Start, Asking, Asks
  <2>2. world[Asked] \in [Fields -> {Good, Bad, Blank}]
    BY <2>1 DEF IInv, TypeOK
  <2> QED
    BY <2>2 DEF Start
<1>6. written' = 0 /\ kept' = 0 /\ truncated' = FALSE
  BY DEF Start
<1>7. config.maxBytes \in Nat \ {0}
  BY ConfigType DEF IInv, TypeOK
<1>8. TypeOK'
  <2>1. kept' \in 0 .. config'.maxBytes
    BY <1>3, <1>6, <1>7 DEF outside
  <2>2. truncated' \in BOOLEAN /\ command' \in {"none", "running", "exited", "failed", "killed"}
    BY <1>1, <1>6, Zenon
  <2> QED
    BY <1>3, <1>4, <1>5, <1>6, <2>1, <2>2 DEF IInv, TypeOK, outside, history
<1>9. TimeInv'
  BY <1>1, <1>2, <1>3, <1>4 DEF IInv, TimeInv
<1>10. BufferKeepsPrefix'
  <2>1. kept' = Least(written', config'.maxBytes) /\ ~(written' > config'.maxBytes)
    BY <1>3, <1>6, <1>7 DEF outside, Least
  <2> QED
    BY <1>6, <2>1 DEF BufferKeepsPrefix
<1>11. RefreshBounded'
  BY <1>3 DEF IInv, RefreshBounded
<1> QED
  BY <1>8, <1>9, <1>10, <1>11 DEF IInv

\* Write keeps what fits, and remembers that something did not.
LEMMA WriteFacts ==
  ASSUME NEW n \in Nat \ {0}, kept \in Nat, written \in Nat, config.maxBytes \in Nat,
         kept = Least(written, config.maxBytes), Write(n)
  PROVE  /\ kept' = Least(written + n, config.maxBytes)
         /\ written + n > config.maxBytes => truncated' = TRUE
         /\ written + n <= config.maxBytes => truncated' = truncated
  BY DEF Write, Least

LEMMA OutputStep == IInv /\ Output => IInv'
<1> SUFFICES ASSUME IInv, Output PROVE IInv'
  OBVIOUS
<1>1. PICK n \in 1 .. Size(Asked) - written : written' = written + n /\ Write(n)
  BY DEF Output
<1>2. written \in Nat /\ kept \in Nat /\ config.maxBytes \in Nat \ {0}
  BY ConfigType DEF IInv, TypeOK
<1>3. n \in Nat \ {0}
  BY <1>2, SizeType
<1>4. command = "running"
  BY DEF Output
<1>5. kept = Least(written, config.maxBytes) /\ (truncated <=> written > config.maxBytes)
  BY <1>4 DEF IInv, BufferKeepsPrefix
<1>6. /\ kept' = Least(written', config.maxBytes)
      /\ written' > config.maxBytes => truncated' = TRUE
      /\ written' <= config.maxBytes => truncated' = truncated
  BY <1>1, <1>2, <1>3, <1>5, WriteFacts
<1>7. UNCHANGED <<outside, position, done, metadata, published, now, command, deadline, linger,
                  printed, history>>
  BY DEF Output
<1>8. written' \in Nat /\ kept' \in 0 .. config.maxBytes
  BY <1>1, <1>2, <1>3, <1>6 DEF Least
<1>9. written' <= config.maxBytes => written <= config.maxBytes
  BY <1>1, <1>2, <1>3
<1>10. written \in Nat /\ (~(written > config.maxBytes) <=> written <= config.maxBytes)
       /\ (~(written' > config.maxBytes) <=> written' <= config.maxBytes)
  BY <1>2, <1>8
<1>11. truncated' \in BOOLEAN /\ (truncated' <=> written' > config.maxBytes)
  <2>1. truncated \in BOOLEAN
    BY DEF IInv, TypeOK
  <2>2. CASE written' > config.maxBytes
    BY <2>2, <1>6, Zenon
  <2>3. CASE ~(written' > config.maxBytes)
    <3>1. written' <= config.maxBytes
      BY <1>10, <2>3
    <3>2. truncated' = truncated /\ written <= config.maxBytes
      BY <1>6, <1>9, <3>1, Zenon
    <3>3. ~(written > config.maxBytes)
      BY <1>10, <3>2
    <3>4. ~truncated
      BY <1>5, <3>3, Zenon
    <3> QED
      BY <2>1, <2>3, <3>2, <3>4, Zenon
  <2> QED
    BY <2>2, <2>3
<1>12. TypeOK'
  BY <1>7, <1>8, <1>11 DEF IInv, TypeOK, outside, history
<1>13. TimeInv'
  BY <1>7 DEF IInv, TimeInv
<1>14. BufferKeepsPrefix'
  BY <1>6, <1>7, <1>11 DEF BufferKeepsPrefix, outside
<1>15. RefreshBounded'
  BY <1>7 DEF IInv, RefreshBounded
<1> QED
  BY <1>12, <1>13, <1>14, <1>15 DEF IInv

LEMMA TimePassesStep == IInv /\ TimePasses => IInv'
<1> SUFFICES ASSUME IInv, TimePasses PROVE IInv'
  OBVIOUS
<1> USE TimesAssumption
<1>1. /\ now' = now + 1 /\ command # "none"
      /\ UNCHANGED <<outside, position, done, metadata, published, command, deadline, printed,
                     written, kept, truncated, history>>
  BY DEF TimePasses
<1>2. /\ now \in Nat /\ linger \in 0 .. MaxLinger /\ deadline \in 0 .. Timeout
      /\ MaxLinger \in Nat /\ Timeout \in Nat
  BY DEF IInv, TypeOK
<1>3. CASE command = "running"
  <2>1. now < deadline /\ linger' = linger /\ linger = 0
    BY <1>3 DEF TimePasses, IInv, TimeInv
  <2>2. TypeOK'
    BY <1>1, <1>2, <2>1 DEF IInv, TypeOK, outside, history
  <2>3. TimeInv'
    BY <1>1, <1>2, <1>3, <2>1 DEF IInv, TimeInv
  <2>4. RefreshBounded'
    BY <1>1, <1>2, <2>1 DEF RefreshBounded
  <2>5. BufferKeepsPrefix'
    BY <1>1 DEF IInv, BufferKeepsPrefix, outside
  <2> QED
    BY <2>2, <2>3, <2>4, <2>5 DEF IInv
<1>4. CASE command # "running"
  <2>1. linger > 0 /\ linger' = linger - 1
    BY <1>4 DEF TimePasses
  <2>2. now + linger <= Timeout + MaxLinger
    BY <1>1, <1>4 DEF IInv, TimeInv
  <2>3. now' + linger' <= Timeout + MaxLinger /\ linger' \in 0 .. MaxLinger
        /\ now' <= Timeout + MaxLinger
    BY <1>1, <1>2, <2>1, <2>2
  <2>4. TypeOK'
    BY <1>1, <1>2, <2>3 DEF IInv, TypeOK, outside, history
  <2>5. TimeInv'
    BY <1>1, <1>4, <2>3 DEF IInv, TimeInv
  <2>6. RefreshBounded'
    BY <2>3 DEF RefreshBounded
  <2>7. BufferKeepsPrefix'
    BY <1>1 DEF IInv, BufferKeepsPrefix, outside
  <2> QED
    BY <2>4, <2>5, <2>6, <2>7 DEF IInv
<1> QED
  BY <1>3, <1>4

LEMMA SumBound ==
  ASSUME NEW a \in Nat, NEW b \in Nat, NEW c \in Nat, NEW d \in Nat, a <= c, b <= d
  PROVE  a + b <= c + d
  OBVIOUS

LEMMA EndStep == IInv /\ End => IInv'
<1> SUFFICES ASSUME IInv, End PROVE IInv'
  OBVIOUS
<1> USE TimesAssumption
<1>1. /\ command = "running" /\ command' \in {"exited", "failed", "killed"}
      /\ linger' \in 0 .. MaxLinger
      /\ UNCHANGED <<outside, position, done, metadata, published, now, deadline, printed,
                     written, kept, truncated, history>>
  BY DEF End
<1>2. now \in Nat /\ now <= deadline /\ deadline \in 0 .. Timeout
  BY <1>1 DEF IInv, TypeOK, TimeInv
<1>3. now' + linger' <= Timeout + MaxLinger
  <2>1. now' = now /\ linger' \in 0 .. MaxLinger
    BY <1>1
  <2>2. Timeout \in Nat /\ MaxLinger \in Nat
    OBVIOUS
  <2>3. now <= Timeout
    BY <1>2, <2>2
  <2>4. linger' <= MaxLinger /\ linger' \in Nat
    BY <2>1, <2>2
  <2>5. now + linger' <= Timeout + MaxLinger
    BY <1>2, <2>2, <2>3, <2>4, SumBound
  <2> QED
    BY <2>1, <2>5
<1>4. TypeOK'
  BY <1>1 DEF IInv, TypeOK, outside, history
<1>5. TimeInv'
  BY <1>1, <1>3 DEF IInv, TimeInv
<1>6. BufferKeepsPrefix' /\ RefreshBounded'
  BY <1>1 DEF IInv, BufferKeepsPrefix, RefreshBounded, outside
<1> QED
  BY <1>4, <1>5, <1>6 DEF IInv

LEMMA RunReturnsStep == IInv /\ RunReturns => IInv'
<1> SUFFICES ASSUME IInv, RunReturns PROVE IInv'
  OBVIOUS
<1> USE TimesAssumption
<1>1. /\ command \notin {"none", "running"} /\ linger = 0
      /\ command' = "none" /\ deadline' = 0
      /\ printed' = NoOutput /\ written' = 0 /\ kept' = 0 /\ truncated' = FALSE
      /\ UNCHANGED <<outside, done, published, now, linger, changed>>
  BY DEF RunReturns
<1>2. position \in {7, 8, 9} /\ ~done /\ Asks(Sources)
  <2>1. position \in {7, 8, 9} /\ ~done
    BY <1>1, OrderFacts DEF IInv, TimeInv
  <2>2. Asked \in Sources
    BY <2>1, OrderFacts DEF Asked
  <2> QED
    BY <2>1, <2>2, OrderFacts DEF Asks
<1>3. /\ metadata' \in [Fields -> Filled \cup {Nil}]
      /\ position' \in 1 .. Len(Order) + 1
      /\ down' \subseteq Sources
  <2>1. CASE command = "exited" /\ Usable
    <3>1. Take(Parsed(Asked, printed, kept))
      BY <2>1 DEF RunReturns
    <3>2. Parsed(Asked, printed, kept) \in [Fields -> {Good, Bad, Cut, Blank}]
      BY ParsedType DEF IInv, TypeOK
    <3> QED
      BY <1>2, <3>1, <3>2, TakeStep
  <2>2. CASE ~(command = "exited" /\ Usable)
    <3>1. PassOver
      BY <2>2 DEF RunReturns
    <3> QED
      BY <1>2, <3>1, PassOverStep
  <2> QED
    BY <2>1, <2>2
<1>4. TypeOK'
  <2>1. kept' \in 0 .. config'.maxBytes
    BY <1>1, ConfigType DEF outside, IInv, TypeOK
  <2>2. printed' \in [Fields -> {Good, Bad, Blank}]
    BY <1>1 DEF NoOutput
  <2>3. truncated' \in BOOLEAN /\ command' \in {"none", "running", "exited", "failed", "killed"}
    BY <1>1, Zenon
  <2>4. written' \in Nat /\ deadline' \in 0 .. Timeout
    BY <1>1
  <2> QED
    BY <1>1, <1>3, <2>1, <2>2, <2>3, <2>4 DEF IInv, TypeOK, outside
<1>5. TimeInv'
  BY <1>1, <1>2 DEF IInv, TimeInv
<1>6. BufferKeepsPrefix' /\ RefreshBounded'
  BY <1>1 DEF IInv, BufferKeepsPrefix, RefreshBounded
<1> QED
  BY <1>4, <1>5, <1>6 DEF IInv

LEMMA RefreshStep == IInv /\ (Publish \/ NextRefresh) => IInv'
<1> SUFFICES ASSUME IInv, Publish \/ NextRefresh PROVE IInv'
  OBVIOUS
<1> USE TimesAssumption
<1>1. CASE Publish
  <2>1. position > Len(Order) /\ done' = TRUE /\ published' = Finalized(metadata)
        /\ UNCHANGED <<outside, position, metadata, now, process, history>>
    BY <1>1 DEF Publish
  <2>2. published' \in [Fields -> [from : Sources, answer : {Good, Cut}] \cup {Unknown}]
    BY <2>1, FinalizedType DEF IInv, TypeOK
  <2>3. done' \in BOOLEAN
    BY <2>1, Zenon
  <2>4. TypeOK'
    BY <2>1, <2>2, <2>3 DEF IInv, TypeOK, outside, process, history
  <2>5. TimeInv'
    BY <2>1 DEF IInv, TimeInv, process
  <2>6. BufferKeepsPrefix' /\ RefreshBounded'
    BY <2>1 DEF IInv, BufferKeepsPrefix, RefreshBounded, process, outside
  <2> QED
    BY <2>4, <2>5, <2>6 DEF IInv
<1>2. CASE NextRefresh
  <2>1. /\ done /\ done' = FALSE /\ position' = 1 /\ now' = 0
        /\ metadata' = [f \in Fields |-> Nil]
        /\ published' = [f \in Fields |-> Unknown]
        /\ down' = {} /\ changed' = FALSE
        /\ UNCHANGED <<outside, process>>
    BY <1>2 DEF NextRefresh
  <2>2. command = "none"
    BY <2>1, OrderFacts DEF IInv, TypeOK, TimeInv
  <2>3. done' \in BOOLEAN /\ changed' \in BOOLEAN
    BY <2>1, Zenon
  <2>4. position' \in 1 .. Len(Order) + 1 /\ now' \in Nat
    BY <2>1, OrderFacts
  <2>5. TypeOK'
    BY <2>1, <2>3, <2>4 DEF IInv, TypeOK, outside, process
  <2>6. TimeInv'
    BY <2>1, <2>2 DEF IInv, TimeInv, process
  <2>7. BufferKeepsPrefix' /\ RefreshBounded'
    BY <2>1, <2>2 DEF BufferKeepsPrefix, RefreshBounded, process
  <2> QED
    BY <2>5, <2>6, <2>7 DEF IInv
<1> QED
  BY <1>1, <1>2

LEMMA ChangeStep ==
  ASSUME IInv, NEW s \in Sources, NEW f \in FieldsOf(s), Change(s, f)
  PROVE  IInv'
<1>1. PICK a \in Answers(f) \ {world[s][f]} : world' = [world EXCEPT ![s][f] = a]
  BY DEF Change
<1>2. /\ changes < MaxChanges /\ changes' = changes + 1 /\ changed' = TRUE
      /\ UNCHANGED <<config, position, done, metadata, published, now, process, down>>
  BY DEF Change
<1>3. world' \in [Sources -> [Fields -> {Good, Bad, Blank}]]
  <2>1. f \in Fields /\ a \in {Good, Bad, Blank}
    BY DEF FieldsOf, Answers
  <2> QED
    BY <1>1, <2>1 DEF IInv, TypeOK
<1>4. TypeOK'
  <2>1. changed' \in BOOLEAN
    BY <1>2, Zenon
  <2>2. changes' \in 0 .. MaxChanges
    BY <1>2, TimesAssumption DEF IInv, TypeOK
  <2> QED
    BY <1>2, <1>3, <2>1, <2>2 DEF IInv, TypeOK, process
<1>5. TimeInv'
  BY <1>2 DEF IInv, TimeInv, process
<1>6. BufferKeepsPrefix' /\ RefreshBounded'
  BY <1>2 DEF IInv, BufferKeepsPrefix, RefreshBounded, process
<1> QED
  BY <1>4, <1>5, <1>6 DEF IInv

LEMMA NextIInv == IInv /\ [Next]_vars => IInv'
<1> SUFFICES ASSUME IInv, [Next]_vars PROVE IInv'
  OBVIOUS
<1>1. CASE UNCHANGED vars
  BY <1>1 DEF vars, outside, process, history, IInv, TypeOK, TimeInv, BufferKeepsPrefix,
              RefreshBounded
<1>2. CASE \E s \in Sources : \E f \in FieldsOf(s) : Change(s, f)
  BY <1>2, ChangeStep
<1>3. CASE ReadHash \/ HashUnavailable
  BY <1>3, HashStep
<1>4. CASE ReadFile \/ FileUnavailable
  BY <1>4, FileStep
<1>5. CASE SkipCommand \/ StartFails
  BY <1>5, NoStartStep
<1>6. CASE Start
  BY <1>6, StartStep
<1>7. CASE Output
  BY <1>7, OutputStep
<1>8. CASE TimePasses
  BY <1>8, TimePassesStep
<1>9. CASE End
  BY <1>9, EndStep
<1>10. CASE RunReturns
  BY <1>10, RunReturnsStep
<1>11. CASE Publish \/ NextRefresh
  BY <1>11, RefreshStep
<1> QED
  BY <1>1, <1>2, <1>3, <1>4, <1>5, <1>6, <1>7, <1>8, <1>9, <1>10, <1>11 DEF Next

-----------------------------------------------------------------------------
(* Which source answers.                                                   *)

LEMMA OrderDistinct ==
  /\ DOMAIN Order = 1 .. 9
  /\ \A i, j \in 1 .. 9 : Order[i] = Order[j] => i = j
  /\ Order[9] = "syseeprom"
  /\ \A i \in 1 .. 9 : Order[i] \in RedisHashes \cup Files => Order[i] \notin Commands
  BY DEF Order, RedisHashes, Files, Commands

LEMMA AnswerType ==
  ASSUME TypeOK, NEW s \in Sources, NEW f \in Fields
  PROVE  AnswerOf(s, f) \in {Good, Bad, Cut, Blank}
<1>1. world[s] \in [Fields -> {Good, Bad, Blank}]
  BY DEF TypeOK
<1>2. Parsed(s, world[s], Least(Size(s), config.maxBytes))[f] \in {Good, Bad, Cut, Blank}
  BY <1>1, ParsedType
<1> QED
  BY <1>1, <1>2 DEF AnswerOf

LEMMA AnswerKept ==
  ASSUME NEW s, NEW f, UNCHANGED outside
  PROVE  AnswerOf(s, f)' = AnswerOf(s, f)
  BY DEF AnswerOf, outside

LEMMA InAnswering ==
  ASSUME NEW f, NEW i
  PROVE  i \in Answering(f) <=>
           /\ i \in 1 .. 9 /\ f \in FieldsOf(Order[i])
           /\ Order[i] \notin down
           /\ Order[i] \in Commands => config.commands
           /\ AnswerOf(Order[i], f) # Blank
  BY OrderDistinct DEF Answering

LEMMA InAnsweringNext ==
  ASSUME NEW f, NEW i, UNCHANGED outside
  PROVE  i \in Answering(f)' <=>
           /\ i \in 1 .. 9 /\ f \in FieldsOf(Order[i])
           /\ Order[i] \notin down'
           /\ Order[i] \in Commands => config.commands
           /\ AnswerOf(Order[i], f) # Blank
<1>1. config' = config
  BY DEF outside
<1>2. i \in Answering(f)' <=>
           /\ i \in 1 .. 9 /\ f \in FieldsOf(Order[i])
           /\ Order[i] \notin down'
           /\ Order[i] \in Commands => config'.commands
           /\ AnswerOf(Order[i], f)' # Blank
  BY OrderDistinct DEF Answering
<1> QED
  BY <1>1, <1>2, AnswerKept

\* What a command prints for a field is all its parser needs to know of it.
LEMMA GivenAnswers ==
  ASSUME NEW s, NEW f \in FieldsOf(s), NEW bytes
  PROVE  Parsed(s, Given(s), bytes)[f] = Parsed(s, world[s], bytes)[f]
<1>1. f \in Fields
  BY DEF FieldsOf
<1>2. Given(s)[f] = world[s][f]
  BY <1>1 DEF Given
<1> QED
  BY <1>1, <1>2 DEF Parsed

\* A field that is filled stays as it is, and one that is not passes a source that
\* does not answer.
LEMMA FieldPasses ==
  ASSUME NEW f, FieldInv(f), UNCHANGED outside, position \in 1 .. 9,
         position' = position + 1, metadata'[f] = metadata[f],
         \A i \in Answering(f)' : i \in Answering(f),
         \A i \in Answering(f) : i < position => i \in Answering(f)',
         metadata[f] = Nil => position \notin Answering(f)'
  PROVE  FieldInv(f)'
<1>1. \A i \in Answering(f) : i \in 1 .. 9
  BY InAnswering
<1>2. \A i \in Answering(f)' : i \in 1 .. 9
  BY InAnsweringNext
<1>3. CASE metadata[f] = Nil /\ \A i \in Answering(f) : i >= position
  <2>1. \A i \in Answering(f)' : i >= position'
    <3> SUFFICES ASSUME NEW i \in Answering(f)' PROVE i >= position'
      OBVIOUS
    <3>1. i # position /\ i >= position /\ i \in 1 .. 9
      BY <1>2, <1>3
    <3> QED
      BY <3>1
  <2> QED
    BY <1>3, <2>1 DEF FieldInv
<1>4. CASE \E i \in Answering(f) :
             /\ i < position /\ \A j \in Answering(f) : i <= j
             /\ metadata[f] = [from |-> Order[i], answer |-> AnswerOf(Order[i], f)]
  <2>1. PICK i \in Answering(f) :
             /\ i < position /\ \A j \in Answering(f) : i <= j
             /\ metadata[f] = [from |-> Order[i], answer |-> AnswerOf(Order[i], f)]
    BY <1>4
  <2>2. i \in Answering(f)' /\ i < position' /\ \A j \in Answering(f)' : i <= j
    BY <1>1, <2>1
  <2>3. metadata'[f] = [from |-> Order[i], answer |-> AnswerOf(Order[i], f)']
    BY <2>1, AnswerKept
  <2> QED
    BY <2>2, <2>3 DEF FieldInv
<1> QED
  BY <1>3, <1>4 DEF FieldInv

\* The answers of the source asked are taken.
LEMMA FieldTakes ==
  ASSUME NEW f \in Fields, NEW answers, FieldInv(f), UNCHANGED outside, TypeOK, DownInv,
         position \in 1 .. 9, Take(answers),
         Asked \in Commands => config.commands,
         f \in FieldsOf(Asked) => answers[f] = AnswerOf(Asked, f)
  PROVE  FieldInv(f)'
<1>1. /\ metadata'[f] = IF f \in FieldsOf(Asked) /\ answers[f] # Blank /\ metadata[f] = Nil
                        THEN [from |-> Asked, answer |-> answers[f]] ELSE metadata[f]
      /\ position' = position + 1 /\ down' = down
  BY DEF Take, SetIfEmpty
<1>2. \A i : i \in Answering(f)' <=> i \in Answering(f)
  BY <1>1, InAnswering, InAnsweringNext
<1>3. position \in Answering(f) <=> f \in FieldsOf(Asked) /\ AnswerOf(Asked, f) # Blank
  <2>1. Asked \notin down
    <3> SUFFICES ASSUME Asked \in down PROVE FALSE
      OBVIOUS
    <3>1. PICK i \in 1 .. position - 1 : Order[i] = Asked
      BY DEF DownInv
    <3>2. i = position
      BY <3>1, OrderDistinct DEF Asked
    <3> QED
      BY <3>1, <3>2
  <2> QED
    BY <2>1, InAnswering DEF Asked
<1>4. CASE position \in Answering(f) /\ metadata[f] = Nil
  <2>1. metadata'[f] = [from |-> Order[position], answer |-> AnswerOf(Order[position], f)]
    BY <1>1, <1>3, <1>4 DEF Asked
  <2>2. \A j \in Answering(f) : position <= j
    <3>1. ASSUME NEW i \in Answering(f), i < position,
                 metadata[f] = [from |-> Order[i], answer |-> AnswerOf(Order[i], f)]
          PROVE  FALSE
      <4>1. Order[i] \in Sources
        BY InAnswering, OrderFacts
      <4>2. AnswerOf(Order[i], f) \in {Good, Bad, Cut}
        BY InAnswering, AnswerType, <4>1
      <4> QED
        BY <1>4, <3>1, <4>1, <4>2, NilAssumption
    <3> QED
      BY <3>1, <1>4 DEF FieldInv
  <2>3. PICK i \in 1 .. 9 : i = position
    OBVIOUS
  <2>4. metadata'[f] = [from |-> Order[i], answer |-> AnswerOf(Order[i], f)']
    BY <2>1, <2>3, AnswerKept
  <2>5. i \in Answering(f)' /\ i < position' /\ \A j \in Answering(f)' : i <= j
    <3>1. i \in Answering(f)'
      BY <1>2, <1>4, <2>3
    <3>2. i < position'
      BY <1>1, <2>3
    <3>3. ASSUME NEW j \in Answering(f)' PROVE i <= j
      <4>1. j \in Answering(f)
        BY <1>2
      <4> QED
        BY <4>1, <2>2, <2>3
    <3> QED
      BY <3>1, <3>2, <3>3
  <2> QED
    BY <2>4, <2>5 DEF FieldInv
<1>5. CASE ~(position \in Answering(f) /\ metadata[f] = Nil)
  <2>1. metadata'[f] = metadata[f]
    BY <1>1, <1>3, <1>5
  <2> QED
    BY <1>1, <1>2, <1>5, <2>1, FieldPasses
<1> QED
  BY <1>4, <1>5

\* The source asked gives an error.
LEMMA FieldFailsOver ==
  ASSUME NEW f, FieldInv(f), UNCHANGED outside, position \in 1 .. 9, PassOver
  PROVE  FieldInv(f)'
<1>1. position' = position + 1 /\ metadata'[f] = metadata[f] /\ down' = down \cup {Order[position]}
  BY DEF PassOver, Asked
<1>2. \A i \in Answering(f)' : i \in Answering(f)
  BY <1>1, InAnswering, InAnsweringNext
<1>3. \A i \in Answering(f) : i < position => i \in Answering(f)'
  <2> SUFFICES ASSUME NEW i \in Answering(f), i < position PROVE i \in Answering(f)'
    OBVIOUS
  <2>1. i \in 1 .. 9 /\ Order[i] # Order[position]
    BY InAnswering, OrderDistinct
  <2> QED
    BY <1>1, <2>1, InAnswering, InAnsweringNext
<1>4. position \notin Answering(f)'
  BY <1>1, InAnsweringNext
<1> QED
  BY <1>1, <1>2, <1>3, <1>4, FieldPasses

-----------------------------------------------------------------------------
(* FallbackInv, step by step.                                              *)

LEMMA InitFallbackInv == Init => FallbackInv
<1> SUFFICES ASSUME Init PROVE FallbackInv
  OBVIOUS
<1>1. CommandInv
  BY DEF Init, CommandInv
<1>2. DownInv
  BY DEF Init, DownInv
<1>3. done => published = Finalized(metadata)
  BY DEF Init
<1>4. ASSUME NEW f \in Fields PROVE FieldInv(f)
  <2>1. metadata[f] = Nil /\ position = 1
    BY DEF Init
  <2>2. \A i \in Answering(f) : i \in 1 .. 9
    BY InAnswering
  <2>3. \A i \in Answering(f) : i >= position
    BY <2>1, <2>2
  <2> QED
    BY <2>1, <2>3 DEF FieldInv
<1> QED
  BY <1>1, <1>2, <1>3, <1>4 DEF FallbackInv

\* Whatever the step to the next source is, the sources down were asked.
LEMMA DownPasses ==
  ASSUME DownInv, position \in 1 .. 9, position' = position + 1,
         down' = down \/ down' = down \cup {Asked}
  PROVE  DownInv'
<1>1. down' \subseteq {Order[i] : i \in 1 .. position}
  <2>1. \A i \in 1 .. position - 1 : i \in 1 .. position
    OBVIOUS
  <2>2. Asked \in {Order[i] : i \in 1 .. position}
    BY DEF Asked
  <2> QED
    BY <2>1, <2>2 DEF DownInv
<1>2. position' - 1 = position
  OBVIOUS
<1> QED
  BY <1>1, <1>2 DEF DownInv

\* A source is read, or fails, with no command under way.
LEMMA SourceFallback ==
  IInv /\ FallbackInv /\ (ReadHash \/ HashUnavailable \/ ReadFile \/ FileUnavailable)
    => FallbackInv'
<1> SUFFICES ASSUME IInv, FallbackInv,
                    ReadHash \/ HashUnavailable \/ ReadFile \/ FileUnavailable
             PROVE  FallbackInv'
  OBVIOUS
<1>1. Asks(RedisHashes \cup Files)
  BY DEF ReadHash, HashUnavailable, ReadFile, FileUnavailable, Asks
<1>2. command = "none" /\ ~done /\ position \in 1 .. 9
  BY <1>1, NoCommand, OrderFacts DEF Asks, IInv, TypeOK
<1>3. UNCHANGED <<outside, done, published, process, changed>>
  BY DEF ReadHash, HashUnavailable, ReadFile, FileUnavailable
<1>4. Asked \notin Commands
  BY <1>1, <1>2, OrderDistinct DEF Asks, Asked
<1>5. Take(world[Asked]) \/ PassOver
  BY DEF ReadHash, HashUnavailable, ReadFile, FileUnavailable
<1>6. CommandInv'
  BY <1>2, <1>3 DEF CommandInv, process
<1>7. DownInv'
  BY <1>2, <1>5, DownPasses DEF FallbackInv, Take, PassOver
<1>8. ASSUME ~changed', NEW f \in Fields PROVE FieldInv(f)'
  <2>1. FieldInv(f) /\ DownInv /\ TypeOK /\ UNCHANGED outside
    BY <1>3, <1>8 DEF FallbackInv, IInv
  <2>2. AnswerOf(Asked, f) = world[Asked][f]
    BY <1>4 DEF AnswerOf
  <2>3. CASE Take(world[Asked])
    BY <1>2, <1>4, <2>1, <2>2, <2>3, FieldTakes
  <2>4. CASE PassOver
    BY <1>2, <2>1, <2>4, FieldFailsOver
  <2> QED
    BY <1>5, <2>3, <2>4
<1> QED
  BY <1>2, <1>3, <1>6, <1>7, <1>8 DEF FallbackInv

\* A command is left out, or cannot be started.
LEMMA NoStartFallback == IInv /\ FallbackInv /\ (SkipCommand \/ StartFails) => FallbackInv'
<1> SUFFICES ASSUME IInv, FallbackInv, SkipCommand \/ StartFails PROVE FallbackInv'
  OBVIOUS
<1>1. command = "none" /\ ~done /\ Asks(Commands)
  BY DEF SkipCommand, StartFails, Asking, Asks
<1>2. position \in 1 .. 9 /\ Asked \in Commands
  BY <1>1, CommandPlace DEF Asks
<1>3. UNCHANGED <<outside, done, published, process, changed>> /\ position' = position + 1
  BY DEF SkipCommand, StartFails, PassOver, history
<1>4. CommandInv'
  BY <1>1, <1>3 DEF CommandInv, process
<1>5. DownInv'
  BY <1>2, <1>3, DownPasses DEF FallbackInv, SkipCommand, StartFails, PassOver, history
<1>6. ASSUME ~changed', NEW f \in Fields PROVE FieldInv(f)'
  <2>1. FieldInv(f) /\ UNCHANGED outside
    BY <1>3, <1>6 DEF FallbackInv
  <2>2. CASE SkipCommand
    <3>1. metadata' = metadata /\ down' = down
      BY <2>2 DEF SkipCommand, history
    <3>2. \A i : i \in Answering(f)' <=> i \in Answering(f)
      BY <2>1, <3>1, InAnswering, InAnsweringNext
    <3>3. metadata[f] = Nil => position \notin Answering(f)
      <4> SUFFICES ASSUME metadata[f] = Nil, position \in Answering(f) PROVE FALSE
        OBVIOUS
      <4>1. config.commands /\ f \in FieldsOf(Asked)
        BY <1>2, InAnswering DEF Asked
      <4>2. Asked = "syseeprom" /\ ~Needs
        BY <2>2, <4>1 DEF SkipCommand
      <4>3. f \in {"serial", "model", "revision"} \cap Fields
        BY <4>1, <4>2 DEF FieldsOf, Names
      <4> QED
        BY <4>2, <4>3 DEF Needs
    <3> QED
      BY <1>2, <1>3, <2>1, <3>1, <3>2, <3>3, FieldPasses
  <2>3. CASE StartFails
    BY <1>2, <2>1, <2>3, FieldFailsOver DEF StartFails
  <2> QED
    BY <2>2, <2>3
<1> QED
  BY <1>1, <1>3, <1>4, <1>5, <1>6 DEF FallbackInv

\* A field stays as it is while its source is asked.
LEMMA FieldStays ==
  ASSUME NEW f, FieldInv(f), UNCHANGED <<outside, position, metadata, down>>
  PROVE  FieldInv(f)'
<1>1. UNCHANGED outside /\ position' = position /\ metadata' = metadata /\ down' = down
  OBVIOUS
<1>2. \A i : i \in Answering(f)' <=> i \in Answering(f)
  BY <1>1, InAnswering, InAnsweringNext
<1>3. CASE metadata[f] = Nil /\ \A i \in Answering(f) : i >= position
  BY <1>1, <1>2, <1>3 DEF FieldInv
<1>4. CASE \E i \in Answering(f) :
             /\ i < position /\ \A j \in Answering(f) : i <= j
             /\ metadata[f] = [from |-> Order[i], answer |-> AnswerOf(Order[i], f)]
  <2>1. PICK i \in Answering(f) :
             /\ i < position /\ \A j \in Answering(f) : i <= j
             /\ metadata[f] = [from |-> Order[i], answer |-> AnswerOf(Order[i], f)]
    BY <1>4
  <2>2. i \in Answering(f)' /\ i < position' /\ \A j \in Answering(f)' : i <= j
    BY <1>1, <1>2, <2>1
  <2>3. metadata'[f] = [from |-> Order[i], answer |-> AnswerOf(Order[i], f)']
    BY <1>1, <2>1, AnswerKept
  <2> QED
    BY <2>2, <2>3 DEF FieldInv
<1> QED
  BY <1>3, <1>4 DEF FieldInv

\* The command runs: it starts, writes, takes time and ends.
LEMMA CommandFallback ==
  IInv /\ FallbackInv /\ (Start \/ Output \/ TimePasses \/ End) => FallbackInv'
<1> SUFFICES ASSUME IInv, FallbackInv, Start \/ Output \/ TimePasses \/ End PROVE FallbackInv'
  OBVIOUS
<1>1. UNCHANGED <<outside, position, done, metadata, published, history>>
  BY DEF Start, Output, TimePasses, End
<1>2. UNCHANGED <<outside, position, metadata, down>> /\ changed' = changed
  BY <1>1 DEF history
<1>3. config' = config /\ world' = world /\ position' = position
  BY <1>1 DEF outside
<1>4. CommandInv'
  <2>1. CASE Start
    <3>1. /\ config.commands /\ command' = "running"
          /\ printed' = [f \in Fields |-> IF f \in FieldsOf(Asked) THEN world[Asked][f] ELSE Blank]
      BY <2>1 DEF Start, Asking
    <3>2. printed' = Given(Asked)'
      BY <1>3, <3>1 DEF Given, Asked
    <3> QED
      BY <1>3, <3>1, <3>2 DEF CommandInv
  <2>2. CASE Output \/ TimePasses \/ End
    <3>1. command # "none" /\ printed' = printed
      BY <2>2 DEF Output, TimePasses, End
    <3>2. command' = "exited" => written' = Size(Asked)
      BY <2>2 DEF Output, TimePasses, End, FallbackInv, CommandInv
    <3> QED
      BY <1>2, <1>3, <3>1, <3>2 DEF FallbackInv, CommandInv, Given, Asked
  <2> QED
    BY <2>1, <2>2
<1>5. DownInv'
  BY <1>2, <1>3 DEF FallbackInv, DownInv
<1>6. ASSUME ~changed', NEW f \in Fields PROVE FieldInv(f)'
  BY <1>2, <1>6, FieldStays DEF FallbackInv
<1>7. done' => published' = Finalized(metadata')
  BY <1>1 DEF FallbackInv
<1> QED
  BY <1>4, <1>5, <1>6, <1>7 DEF FallbackInv

\* The command has ended, and its output is parsed or thrown away.
LEMMA ReturnFallback == IInv /\ FallbackInv /\ RunReturns => FallbackInv'
<1> SUFFICES ASSUME IInv, FallbackInv, RunReturns PROVE FallbackInv'
  OBVIOUS
<1>1. command \notin {"none", "running"} /\ command' = "none"
      /\ UNCHANGED <<outside, done, published, changed>>
  BY DEF RunReturns
<1>2. position \in 7 .. 9 /\ ~done /\ Asked \in Commands
  <2>1. position \in {7, 8, 9} /\ ~done
    BY <1>1, OrderFacts DEF IInv, TimeInv
  <2> QED
    BY <2>1 DEF Asked, Order, Commands
<1>3. /\ config.commands
      /\ ~changed => printed = Given(Asked)
      /\ command = "exited" => written = Size(Asked)
  BY <1>1 DEF FallbackInv, CommandInv
<1>4. (command = "exited" /\ Take(Parsed(Asked, printed, kept))) \/ PassOver
  BY DEF RunReturns
<1>5. DownInv'
  BY <1>2, <1>4, DownPasses DEF FallbackInv, Take, PassOver
<1>6. ASSUME ~changed', NEW f \in Fields PROVE FieldInv(f)'
  <2>1. FieldInv(f) /\ DownInv /\ TypeOK /\ UNCHANGED outside /\ position \in 1 .. 9
    BY <1>1, <1>2, <1>6 DEF FallbackInv, IInv
  <2>2. CASE command = "exited" /\ Take(Parsed(Asked, printed, kept))
    <3>1. kept = Least(Size(Asked), config.maxBytes)
      BY <1>1, <1>3, <2>2 DEF IInv, BufferKeepsPrefix
    <3>2. printed = Given(Asked)
      BY <1>1, <1>3, <1>6
    <3>3. f \in FieldsOf(Asked) =>
            Parsed(Asked, printed, kept)[f] = Parsed(Asked, world[Asked], kept)[f]
      BY <3>2, GivenAnswers
    <3>4. f \in FieldsOf(Asked) => Parsed(Asked, printed, kept)[f] = AnswerOf(Asked, f)
      BY <1>2, <3>1, <3>3 DEF AnswerOf
    <3> QED
      BY <1>3, <2>1, <2>2, <3>4, FieldTakes
  <2>3. CASE PassOver
    BY <2>1, <2>3, FieldFailsOver
  <2> QED
    BY <1>4, <2>2, <2>3
<1> QED
  BY <1>1, <1>2, <1>5, <1>6 DEF FallbackInv, CommandInv

\* The series are published, and the next refresh forgets them.
LEMMA RefreshFallback == IInv /\ FallbackInv /\ (Publish \/ NextRefresh) => FallbackInv'
<1> SUFFICES ASSUME IInv, FallbackInv, Publish \/ NextRefresh PROVE FallbackInv'
  OBVIOUS
<1>1. CASE Publish
  <2>1. published' = Finalized(metadata')
    BY <1>1 DEF Publish
  <2>2. UNCHANGED <<outside, position, metadata, process, history>>
    BY <1>1 DEF Publish
  <2>3. UNCHANGED <<outside, position, metadata, down>> /\ changed' = changed
    BY <2>2 DEF history
  <2>4. CommandInv' /\ DownInv'
    BY <2>2, <2>3 DEF FallbackInv, CommandInv, DownInv, process, outside, Given, Asked
  <2>5. ASSUME ~changed', NEW f \in Fields PROVE FieldInv(f)'
    BY <2>3, <2>5, FieldStays DEF FallbackInv
  <2> QED
    BY <2>1, <2>4, <2>5 DEF FallbackInv
<1>2. CASE NextRefresh
  <2>1. /\ done /\ done' = FALSE /\ position' = 1 /\ down' = {}
        /\ metadata' = [f \in Fields |-> Nil]
        /\ UNCHANGED <<outside, process>>
    BY <1>2 DEF NextRefresh
  <2>2. command' = "none"
    BY <2>1, OrderFacts DEF IInv, TypeOK, TimeInv, process
  <2>3. CommandInv' /\ DownInv'
    BY <2>1, <2>2 DEF CommandInv, DownInv
  <2>4. ASSUME NEW f \in Fields PROVE FieldInv(f)'
    <3>1. \A i \in Answering(f)' : i \in 1 .. 9
      BY <2>1, InAnsweringNext
    <3>2. metadata'[f] = Nil /\ \A i \in Answering(f)' : i >= position'
      BY <2>1, <3>1
    <3> QED
      BY <3>2 DEF FieldInv
  <2> QED
    BY <2>1, <2>3, <2>4 DEF FallbackInv
<1> QED
  BY <1>1, <1>2

\* A source comes to answer something else.
LEMMA ChangeFallback ==
  ASSUME IInv, FallbackInv, NEW s \in Sources, NEW f \in FieldsOf(s), Change(s, f)
  PROVE  FallbackInv'
<1>1. /\ changed' = TRUE
      /\ UNCHANGED <<config, position, done, metadata, published, process, down>>
  BY DEF Change
<1> QED
  BY <1>1 DEF FallbackInv, CommandInv, DownInv, process, Asked

LEMMA NextFallbackInv == IInv /\ FallbackInv /\ [Next]_vars => FallbackInv'
<1> SUFFICES ASSUME IInv, FallbackInv, [Next]_vars PROVE FallbackInv'
  OBVIOUS
<1>1. CASE UNCHANGED vars
  <2>1. UNCHANGED <<outside, position, done, metadata, published, process, history>>
    BY <1>1 DEF vars
  <2>2. UNCHANGED <<outside, position, metadata, down>> /\ changed' = changed
    BY <2>1 DEF history
  <2>3. CommandInv' /\ DownInv'
    BY <2>1, <2>2 DEF FallbackInv, CommandInv, DownInv, process, outside, Given, Asked
  <2>4. ASSUME ~changed', NEW f \in Fields PROVE FieldInv(f)'
    BY <2>2, <2>4, FieldStays DEF FallbackInv
  <2> QED
    BY <2>1, <2>3, <2>4 DEF FallbackInv
<1>2. CASE \E s \in Sources : \E f \in FieldsOf(s) : Change(s, f)
  BY <1>2, ChangeFallback
<1>3. CASE ReadHash \/ HashUnavailable \/ ReadFile \/ FileUnavailable
  BY <1>3, SourceFallback
<1>4. CASE SkipCommand \/ StartFails
  BY <1>4, NoStartFallback
<1>5. CASE Start \/ Output \/ TimePasses \/ End
  BY <1>5, CommandFallback
<1>6. CASE RunReturns
  BY <1>6, ReturnFallback
<1>7. CASE Publish \/ NextRefresh
  BY <1>7, RefreshFallback
<1> QED
  BY <1>1, <1>2, <1>3, <1>4, <1>5, <1>6, <1>7 DEF Next

\* At the end of the refresh no source is left to ask.
LEMMA PublishedInOrder == IInv /\ FallbackInv => FallbackOrder
<1> SUFFICES ASSUME IInv, FallbackInv, done, ~changed, NEW f \in Fields
             PROVE  LET first == CHOOSE i \in Answering(f) : \A j \in Answering(f) : i <= j
                    IN  published[f] =
                          IF Answering(f) = {} THEN Unknown
                          ELSE IF AnswerOf(Order[first], f) = Bad THEN Unknown
                          ELSE [from |-> Order[first], answer |-> AnswerOf(Order[first], f)]
  BY DEF FallbackOrder
<1> DEFINE first == CHOOSE i \in Answering(f) : \A j \in Answering(f) : i <= j
<1>1. position > 9 /\ position \in Nat
  BY OrderFacts DEF IInv, TimeInv, TypeOK
<1>2. published[f] = IF metadata[f] = Nil THEN Unknown
                     ELSE IF metadata[f].answer = Bad THEN Unknown ELSE metadata[f]
  BY DEF FallbackInv, Finalized
<1>3. \A i \in Answering(f) : i \in 1 .. 9
  BY InAnswering
<1>4. FieldInv(f)
  BY DEF FallbackInv
<1>5. CASE metadata[f] = Nil /\ \A i \in Answering(f) : i >= position
  <2>1. Answering(f) = {}
    BY <1>1, <1>3, <1>5
  <2> QED
    BY <1>2, <1>5, <2>1
<1>6. CASE \E i \in Answering(f) :
             /\ i < position /\ \A j \in Answering(f) : i <= j
             /\ metadata[f] = [from |-> Order[i], answer |-> AnswerOf(Order[i], f)]
  <2>1. PICK i \in Answering(f) :
             /\ \A j \in Answering(f) : i <= j
             /\ metadata[f] = [from |-> Order[i], answer |-> AnswerOf(Order[i], f)]
    BY <1>6
  <2>2. first \in Answering(f) /\ \A j \in Answering(f) : first <= j
    BY <2>1
  <2>3. first = i
    <3> HIDE DEF first
    <3>1. first <= i /\ i <= first /\ first \in 1 .. 9 /\ i \in 1 .. 9
      BY <1>3, <2>1, <2>2
    <3> QED
      BY <3>1
  <2>4. metadata[f] # Nil
    <3>1. Order[i] \in Sources /\ AnswerOf(Order[i], f) \in {Good, Bad, Cut}
      BY InAnswering, OrderFacts, AnswerType DEF IInv
    <3> QED
      BY <2>1, <3>1, NilAssumption
  <2>5. published[f] = IF Answering(f) = {} THEN Unknown
                       ELSE IF AnswerOf(Order[i], f) = Bad THEN Unknown
                       ELSE [from |-> Order[i], answer |-> AnswerOf(Order[i], f)]
    BY <1>2, <2>1, <2>4
  <2> QED
    BY <2>3, <2>5, Zenon
<1> QED
  BY <1>4, <1>5, <1>6 DEF FieldInv

-----------------------------------------------------------------------------
\* The state of a refresh of the system collector stays in its type, the buffer
\* within its limit among it.
THEOREM SystemTypeCorrect == Spec => []TypeOK
<1>1. IInv => TypeOK
  BY DEF IInv
<1> QED
  BY <1>1, InitIInv, NextIInv, PTL DEF Spec

\* For every limit and every sequence of writes, limitedOutputBuffer holds exactly
\* the first bytes of the output, and truncated says that there were more.
THEOREM BufferIsPrefix == Spec => []BufferKeepsPrefix
<1>1. IInv => BufferKeepsPrefix
  BY DEF IInv
<1> QED
  BY <1>1, InitIInv, NextIInv, PTL DEF Spec

\* For all timeouts, however many sources are slow, refreshMetrics ends within
\* SYSTEM_TIMEOUT and one Redis command, or one command's descendants.
THEOREM RefreshEndsInTime == Spec => []RefreshBounded
<1>1. IInv => RefreshBounded
  BY DEF IInv
<1> QED
  BY <1>1, InitIInv, NextIInv, PTL DEF Spec

\* For any fields, answers, failures and limits, what is published of a refresh
\* in which nothing changes is what the first source with an answer says: setIfEmpty
\* keeps it, an error is made up for by the sources after it, and no source is
\* left out that would have mattered.
THEOREM FallbackInOrder == Spec => []FallbackOrder
<1>1. Init => IInv /\ FallbackInv
  BY InitIInv, InitFallbackInv
<1>2. IInv /\ FallbackInv /\ [Next]_vars => (IInv /\ FallbackInv)'
  BY NextIInv, NextFallbackInv
<1> QED
  BY <1>1, <1>2, PublishedInOrder, PTL DEF Spec

=============================================================================
