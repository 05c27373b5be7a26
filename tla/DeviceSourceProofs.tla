------------------------- MODULE DeviceSourceProofs -------------------------
(***************************************************************************)
(* Proofs about DeviceSource: its variables keep their types, the cache is *)
(* coherent and answers never come from a file that had left the path; and *)
(* a file that grows by whole lines is a register.                         *)
(***************************************************************************)
EXTENDS DeviceSource, TLAPS

\* What a thread that has asked knows: the revision it asked for is not ahead of
\* the disk, and while that revision is still the one at the path, the thread has
\* the file open and measured it right.
Asked(r) ==
    /\ stamp[r].file <= newest
    /\ stamp[r].length <= files[stamp[r].file].length
    /\ pc[r] \in {"measure", "read"} =>
          /\ handle[r] \in FileIds
          /\ stamp[r].file <= handle[r]
          /\ handle[r] <= newest
          /\ (path # 0 /\ stamp[r] = Stamp(path)) => handle[r] = path
    /\ (pc[r] = "read" /\ path # 0 /\ stamp[r] = Stamp(path)) =>
          total[r] = files[path].length

\* What holds of an entry of the cache.
Sound(entry) ==
    /\ entry.key.file <= newest
    /\ entry.key.length <= files[entry.key.file].length
    /\ entry.key.file <= entry.value.file
    /\ entry.value.file <= newest
    /\ (path # 0 /\ entry.key = Stamp(path)) =>
          entry.value = Reading(path, files[path].length)

\* The inductive invariant.
SourceIInv ==
    /\ TypeOK
    /\ \A r \in Readers : Asked(r)
    /\ \A i \in DOMAIN cache : Sound(cache[i])
    /\ AnswersMoveForward

----------------------------------------------------------------------------
(* Reading and the cache. *)

\* Reading a file gives a snapshot of that file or one of the two failures.
LEMMA ReadingShape ==
    ASSUME TypeOK, NEW id \in FileIds, NEW size \in Nat
    PROVE  /\ Reading(id, size) \in Snapshot \cup {Unavailable, Raised}
           /\ Reading(id, size).kind = "snapshot" =>
                 /\ Reading(id, size) \in Snapshot
                 /\ Reading(id, size).file = id
  <1> DEFINE seen == Least(size, files[id].length)
             record == Records(seen) + (IF Rest(seen) = 2 THEN 1 ELSE 0)
  <1>1. files[id].length \in Nat
    BY DEF TypeOK, ContentShape
  <1>2. seen \in Nat
    BY <1>1 DEF Least
  <1>3. Records(seen) \in Nat
    BY <1>2, SMT DEF Records
  <1>4. record \in Nat
    BY <1>3
  <1>5. [kind |-> "snapshot", file |-> id, record |-> record, cut |-> Rest(seen) = 2]
            \in Snapshot
    BY <1>4 DEF Snapshot
  <1> HIDE DEF seen, record
  <1> QED
    BY <1>5 DEF Reading, seen, record, Unavailable, Raised

\* A hit reorders the cache.
LEMMA TouchedKeepsEntries ==
    ASSUME cache \in Seq(Entry), NEW i \in DOMAIN cache
    PROVE  /\ Touched(i) \in Seq(Entry)
           /\ Len(Touched(i)) = Len(cache)
           /\ \A j \in DOMAIN Touched(i) : \E k \in DOMAIN cache : Touched(i)[j] = cache[k]
  <1>1. DOMAIN cache = 1 .. Len(cache) /\ Len(cache) \in Nat
    OBVIOUS
  <1>2. \A j \in DOMAIN cache : \E k \in DOMAIN cache : Touched(i)[j] = cache[k]
    BY <1>1 DEF Touched
  <1>3. DOMAIN Touched(i) = 1 .. Len(cache)
    BY <1>1 DEF Touched
  <1>4. Touched(i) \in [1 .. Len(cache) -> Entry]
    BY <1>1 DEF Touched
  <1> QED
    BY <1>1, <1>2, <1>3, <1>4

\* A miss adds at most its own entry, within the size of the cache.
LEMMA StoredAddsOneEntry ==
    ASSUME cache \in Seq(Entry), Len(cache) <= CacheSize,
           NEW key \in StampShape, NEW value \in Snapshot
    PROVE  /\ Stored(key, value) \in Seq(Entry)
           /\ Len(Stored(key, value)) <= CacheSize
           /\ \A j \in DOMAIN Stored(key, value) :
                 \/ Stored(key, value)[j] = [key |-> key, value |-> value]
                 \/ \E k \in DOMAIN cache : Stored(key, value)[j] = cache[k]
  <1> DEFINE kept == IF Len(cache) < CacheSize THEN cache ELSE Tail(cache)
             entry == [key |-> key, value |-> value]
  <1>1. CASE Cached(key)
    BY <1>1 DEF Stored
  <1>2. CASE ~Cached(key)
    <2>1. CacheSize \in Nat \ {0}
      BY SourceAssumption
    <2>2. kept \in Seq(Entry) /\ Len(kept) < CacheSize
      BY <2>1
    <2>3. \A j \in 1 .. Len(kept) : \E k \in 1 .. Len(cache) : kept[j] = cache[k]
      <3>1. CASE Len(cache) < CacheSize
        BY <3>1
      <3>2. CASE ~(Len(cache) < CacheSize)
        <4>1. cache # <<>>
          BY <2>1, <3>2
        <4>2. Len(Tail(cache)) = Len(cache) - 1
          BY <4>1
        <4>3. \A j \in 1 .. Len(Tail(cache)) : Tail(cache)[j] = cache[j + 1]
          BY <4>1
        <4> QED
          BY <3>2, <4>2, <4>3
      <3> QED
        BY <3>1, <3>2
    <2>4. entry \in Entry
      BY DEF Entry
    <2> HIDE DEF kept, entry
    <2>5. Append(kept, entry) \in Seq(Entry) /\ Len(Append(kept, entry)) = Len(kept) + 1
      BY <2>2, <2>4
    <2>6. \A j \in 1 .. Len(kept) + 1 :
             Append(kept, entry)[j] = IF j <= Len(kept) THEN kept[j] ELSE entry
      BY <2>2, <2>4
    <2>7. Stored(key, value) = Append(kept, entry)
      BY <1>2 DEF Stored, kept, entry
    <2>8. \A j \in 1 .. Len(kept) + 1 :
             \/ Append(kept, entry)[j] = entry
             \/ \E k \in 1 .. Len(cache) : Append(kept, entry)[j] = cache[k]
      BY <2>2, <2>3, <2>6
    <2> QED
      BY <2>1, <2>2, <2>5, <2>7, <2>8 DEF entry
  <1> QED
    BY <1>1, <1>2

----------------------------------------------------------------------------
(* The invariant. *)

LEMMA SourceInit == Init => SourceIInv
  <1> SUFFICES ASSUME Init PROVE SourceIInv
    OBVIOUS
  <1>1. MaxFiles \in Nat \ {0} /\ CacheSize \in Nat \ {0} /\ Contents \subseteq ContentShape
    BY SourceAssumption
  <1>2. 1 \in FileIds
    BY <1>1 DEF FileIds
  <1>3. \A id \in FileIds : files[id] \in ContentShape
    BY <1>1 DEF Init
  <1>4. TypeOK
    BY <1>1, <1>2 DEF Init, TypeOK, NoStamp, StampShape
  <1>5. \A r \in Readers : Asked(r)
    <2> SUFFICES ASSUME NEW r \in Readers PROVE Asked(r)
      OBVIOUS
    <2>1. stamp[r] = [file |-> 1, length |-> 0] /\ pc[r] = "idle" /\ newest = 1
      BY DEF Init, NoStamp
    <2>2. files[1].length \in Nat
      BY <1>2, <1>3 DEF ContentShape
    <2>3. stamp[r].file = 1 /\ stamp[r].length = 0
      BY <2>1
    <2> QED
      BY <2>1, <2>2, <2>3 DEF Asked
  <1>6. \A i \in DOMAIN cache : Sound(cache[i])
    BY DEF Init
  <1>7. AnswersMoveForward
    BY DEF Init, AnswersMoveForward, NoAnswer
  <1> QED
    BY <1>4, <1>5, <1>6, <1>7 DEF SourceIInv

\* Writers: the revision at the path becomes one that nobody has seen.
LEMMA WriterStep ==
    ASSUME SourceIInv, Grow \/ Replace \/ Remove
    PROVE  SourceIInv'
  <1> USE DEF SourceIInv
  <1>1. MaxFiles \in Nat \ {0} /\ Contents \subseteq ContentShape
    BY SourceAssumption
  <1>2. newest \in Nat /\ newest \in FileIds /\ newest' \in Nat /\ newest <= newest'
    BY <1>1 DEF TypeOK, FileIds, Grow, Replace, Remove
  <1>3. /\ files' \in [FileIds -> ContentShape]
        /\ newest' \in FileIds
        /\ path' \in {0, newest'}
    <2>1. CASE Grow
      <3>1. path \in FileIds /\ path # 0
        BY <2>1, <1>2 DEF Grow, TypeOK
      <3>2. files[path].length \in Nat
        BY <3>1 DEF TypeOK, ContentShape
      <3> DEFINE n == files[path].length + (IF Tears \/ files[path].length = 0 THEN 1 ELSE 3)
      <3>3. n \in Nat /\ files' = [files EXCEPT ![path].length = n]
        BY <2>1, <3>2 DEF Grow
      <3> HIDE DEF n
      <3>4. [files[path] EXCEPT !.length = n] \in ContentShape
        BY <3>1, <3>3 DEF TypeOK, ContentShape
      <3> QED
        BY <2>1, <3>1, <3>3, <3>4 DEF Grow, TypeOK
    <2>2. CASE Replace
      BY <2>2, <1>1 DEF Replace, TypeOK, FileIds
    <2>3. CASE Remove
      BY <2>3 DEF Remove, TypeOK
    <2> QED
      BY <2>1, <2>2, <2>3
  <1>4. /\ UNCHANGED <<cache, pc, stamp, handle, total, reply>>
        /\ \A id \in 1 .. newest :
              /\ files[id].length <= files'[id].length
              /\ (path' # 0 /\ id = path') => files[id].length < files'[id].length
    <2>0. \A id \in 1 .. newest : id \in FileIds /\ files[id].length \in Nat
      BY <1>1, <1>2 DEF TypeOK, FileIds, ContentShape
    <2>1. CASE Grow
      <3>1. path \in 1 .. newest /\ path = newest
        BY <2>1, <1>1, <1>2 DEF Grow, TypeOK, FileIds
      <3> DEFINE n == files[path].length + (IF Tears \/ files[path].length = 0 THEN 1 ELSE 3)
      <3>2. /\ n \in Nat /\ n > files[path].length
            /\ files' = [files EXCEPT ![path].length = n]
        BY <2>1, <2>0, <3>1 DEF Grow
      <3> HIDE DEF n
      <3> QED
        BY <2>1, <2>0, <3>1, <3>2 DEF Grow, TypeOK
    <2>2. CASE Replace
      BY <2>2, <2>0, <1>2 DEF Replace, TypeOK
    <2>3. CASE Remove
      BY <2>3, <2>0 DEF Remove, TypeOK
    <2> QED
      BY <2>1, <2>2, <2>3
  <1>5. TypeOK'
    BY <1>3, <1>4 DEF TypeOK
  <1>6. \A s \in StampShape :
           s.file <= newest /\ s.length <= files[s.file].length =>
              /\ s.file <= newest'
              /\ s.length <= files'[s.file].length
              /\ path' # 0 => s # Stamp(path)'
    <2> SUFFICES ASSUME NEW s \in StampShape,
                        s.file <= newest, s.length <= files[s.file].length
                 PROVE  /\ s.file <= newest'
                        /\ s.length <= files'[s.file].length
                        /\ path' # 0 => s # Stamp(path)'
      OBVIOUS
    <2>1. s.file \in 1 .. newest /\ s.file \in FileIds /\ s.length \in Nat
      BY <1>1, <1>2 DEF StampShape, FileIds
    <2>2. files[s.file].length \in Nat /\ files'[s.file].length \in Nat
      BY <2>1, <1>3 DEF TypeOK, ContentShape
    <2>3. s.file <= newest' /\ s.length <= files'[s.file].length
      BY <2>1, <2>2, <1>2, <1>4
    <2>4. ASSUME path' # 0, s = [file |-> path', length |-> files'[path'].length]
          PROVE  FALSE
      BY <2>1, <2>2, <2>4, <1>4
    <2> QED
      BY <2>3, <2>4 DEF Stamp
  <1>7. \A r \in Readers : Asked(r)'
    <2> SUFFICES ASSUME NEW r \in Readers PROVE Asked(r)'
      OBVIOUS
    <2>1. Asked(r) /\ stamp[r] \in StampShape /\ handle[r] \in FileIds \cup {0}
      BY DEF TypeOK
    <2>2. stamp[r].file \in Nat /\ (handle[r] \in FileIds => handle[r] \in Nat)
      BY <2>1, <1>1 DEF StampShape, FileIds
    <2> QED
      BY <2>1, <2>2, <1>2, <1>4, <1>6 DEF Asked
  <1>8. \A i \in DOMAIN cache' : Sound(cache[i])'
    <2> SUFFICES ASSUME NEW i \in DOMAIN cache PROVE Sound(cache[i])'
      BY <1>4
    <2>1. Sound(cache[i]) /\ cache[i] \in Entry
      BY DEF TypeOK
    <2>2. cache[i].key \in StampShape /\ cache[i].value.file \in Nat
      BY <2>1, <1>1 DEF Entry, Snapshot, FileIds
    <2>3. cache'[i] = cache[i]
      BY <1>4
    <2> QED
      BY <2>1, <2>2, <2>3, <1>2, <1>6 DEF Sound
  <1>9. AnswersMoveForward'
    <2> SUFFICES ASSUME NEW r \in Readers, reply[r].kind = "snapshot"
                 PROVE  stamp[r].file <= reply[r].file /\ reply[r].file <= newest'
      BY <1>4 DEF AnswersMoveForward
    <2>1. reply[r] \in Snapshot
      BY DEF TypeOK, Unavailable, Raised, NoAnswer
    <2>2. reply[r].file \in Nat
      BY <2>1, <1>1 DEF Snapshot, FileIds
    <2> QED
      BY <2>2, <1>2 DEF AnswersMoveForward
  <1> QED
    BY <1>5, <1>7, <1>8, <1>9

\* A step that ends a call with a value of the right type and age, and leaves a
\* cache of sound entries, keeps the invariant.
LEMMA AnswerStep ==
    ASSUME SourceIInv, NEW r \in Readers,
           NEW value \in Snapshot \cup {Unavailable, Raised}, Answer(r, value),
           value.kind = "snapshot" => /\ stamp[r].file <= value.file
                                      /\ value.file <= newest,
           UNCHANGED <<files, newest, path, stamp>>,
           cache' \in Seq(Entry), Len(cache') <= CacheSize,
           \A i \in DOMAIN cache' : Sound(cache'[i])
    PROVE  SourceIInv'
  <1> USE DEF SourceIInv
  <1>1. TypeOK'
    BY DEF TypeOK, Answer
  <1>2. \A s \in Readers : pc'[s] = IF s = r THEN "done" ELSE pc[s]
    BY DEF Answer, TypeOK
  <1>3. \A s \in Readers \ {r} : /\ handle'[s] = handle[s]
                                 /\ total'[s] = total[s]
                                 /\ reply'[s] = reply[s]
    BY DEF Answer, TypeOK
  <1>4. Stamp(path)' = Stamp(path)
    BY DEF Stamp
  <1>5. \A s \in Readers : Asked(s)'
    BY <1>2, <1>3, <1>4 DEF Asked
  <1>6. \A i \in DOMAIN cache' : Sound(cache[i])'
    BY <1>4 DEF Sound, Reading
  <1>7. reply'[r] = value
    BY DEF Answer, TypeOK
  <1>8. AnswersMoveForward'
    BY <1>3, <1>7 DEF AnswersMoveForward
  <1> QED
    BY <1>1, <1>5, <1>6, <1>8

LEMMA AskStep ==
    ASSUME SourceIInv, NEW r \in Readers, Ask(r)
    PROVE  SourceIInv'
  <1> USE DEF SourceIInv
  <1>1. CASE path = 0
    <2>1. Answer(r, Unavailable) /\ UNCHANGED <<files, newest, path, stamp, cache>>
      BY <1>1 DEF Ask, disk
    <2>2. Unavailable.kind # "snapshot"
      BY DEF Unavailable
    <2> QED
      BY <2>1, <2>2, AnswerStep DEF TypeOK
  <1>2. CASE path # 0
    <2>1. /\ stamp' = [stamp EXCEPT ![r] = Stamp(path)]
          /\ pc' = [pc EXCEPT ![r] = "lookup"]
          /\ reply' = [reply EXCEPT ![r] = NoAnswer]
          /\ UNCHANGED <<files, newest, path, cache, handle, total>>
      BY <1>2 DEF Ask, disk
    <2>2. path \in FileIds /\ path = newest /\ newest \in Nat
      BY <1>2, SourceAssumption DEF TypeOK, FileIds
    <2>3. files[path].length \in Nat
      BY <2>2 DEF TypeOK, ContentShape
    <2>4. Stamp(path) \in StampShape /\ Stamp(path).file = path
          /\ Stamp(path).length = files[path].length
      BY <2>2, <2>3 DEF Stamp, StampShape
    <2>5. TypeOK'
      BY <2>1, <2>4 DEF TypeOK
    <2>6. Stamp(path)' = Stamp(path)
      BY <2>1 DEF Stamp
    <2>7. \A s \in Readers : Asked(s)'
      <3> SUFFICES ASSUME NEW s \in Readers PROVE Asked(s)'
        OBVIOUS
      <3>1. CASE s = r
        <4>1. pc'[r] = "lookup" /\ stamp'[r] = Stamp(path)
          BY <2>1 DEF TypeOK
        <4> QED
          BY <3>1, <4>1, <2>1, <2>2, <2>3, <2>4 DEF Asked
      <3>2. CASE s # r
        BY <3>2, <2>1, <2>6 DEF Asked, TypeOK
      <3> QED
        BY <3>1, <3>2
    <2>8. \A i \in DOMAIN cache' : Sound(cache[i])'
      BY <2>1, <2>6 DEF Sound, Reading
    <2>9. AnswersMoveForward'
      BY <2>1 DEF AnswersMoveForward, NoAnswer, TypeOK
    <2> QED
      BY <2>5, <2>7, <2>8, <2>9
  <1> QED
    BY <1>1, <1>2

LEMMA HitStep ==
    ASSUME SourceIInv, NEW r \in Readers, Hit(r)
    PROVE  SourceIInv'
  <1> USE DEF SourceIInv
  <1>1. PICK i \in DOMAIN cache : /\ cache[i].key = stamp[r]
                                  /\ Answer(r, cache[i].value)
                                  /\ cache' = Touched(i)
    BY DEF Hit
  <1>2. UNCHANGED <<files, newest, path, stamp>>
    BY DEF Hit, disk
  <1>3. /\ cache' \in Seq(Entry)
        /\ Len(cache') <= CacheSize
        /\ \A j \in DOMAIN cache' : Sound(cache'[j])
    BY <1>1, TouchedKeepsEntries DEF TypeOK
  <1>4. cache[i].value \in Snapshot /\ Sound(cache[i])
    <2>1. cache[i] \in Entry
      BY DEF TypeOK
    <2> QED
      BY <2>1 DEF Entry
  <1>5. /\ stamp[r].file <= cache[i].value.file
        /\ cache[i].value.file <= newest
    BY <1>1, <1>4 DEF Sound
  <1> QED
    BY <1>1, <1>2, <1>3, <1>4, <1>5, AnswerStep

\* The thread goes on inside the call, with another file open or size measured.
LEMMA InCallStep ==
    ASSUME SourceIInv, NEW r \in Readers, Open(r) \/ Measure(r), path # 0
    PROVE  SourceIInv'
  <1> USE DEF SourceIInv
  <1>1. UNCHANGED <<files, newest, path, cache, stamp, reply>>
    BY DEF Open, Measure, disk
  <1>2. path \in FileIds /\ path = newest /\ newest \in Nat
    BY SourceAssumption DEF TypeOK, FileIds
  <1>3. files[path].length \in Nat
    BY <1>2 DEF TypeOK, ContentShape
  <1>4. Stamp(path)' = Stamp(path)
    BY <1>1 DEF Stamp
  <1>5. \A i \in DOMAIN cache' : Sound(cache[i])'
    BY <1>1, <1>4 DEF Sound, Reading
  <1>6. AnswersMoveForward'
    BY <1>1 DEF AnswersMoveForward
  <1>7. TypeOK' /\ \A s \in Readers : Asked(s)'
    <2>1. CASE Open(r)
      <3>1. /\ handle' = [handle EXCEPT ![r] = path]
            /\ pc' = [pc EXCEPT ![r] = "measure"]
            /\ UNCHANGED total
        BY <2>1 DEF Open
      <3>2. TypeOK'
        BY <1>1, <1>2, <3>1 DEF TypeOK
      <3>3. Asked(r)'
        <4>1. handle'[r] = path /\ pc'[r] = "measure"
          BY <3>1 DEF TypeOK
        <4> QED
          BY <4>1, <1>1, <1>2, <1>4 DEF Asked
      <3>4. \A s \in Readers \ {r} : Asked(s)'
        BY <3>1, <1>1, <1>4 DEF Asked, TypeOK
      <3> QED
        BY <3>2, <3>3, <3>4
    <2>2. CASE Measure(r)
      <3>1. PICK size \in IF path = handle[r] THEN {files[path].length} ELSE 0 .. MaxLength :
               /\ total' = [total EXCEPT ![r] = size]
               /\ pc' = [pc EXCEPT ![r] = "read"]
               /\ UNCHANGED handle
        BY <2>2 DEF Measure
      <3>2. size \in Nat
        BY <1>3, <3>1, SourceAssumption
      <3>3. TypeOK'
        BY <1>1, <3>1, <3>2 DEF TypeOK
      <3>4. Asked(r)'
        <4>1. total'[r] = size /\ pc'[r] = "read" /\ pc[r] = "measure"
          BY <2>2, <3>1 DEF TypeOK, Measure
        <4>2. handle[r] = path => size = files[path].length
          BY <3>1
        <4> QED
          BY <4>1, <4>2, <3>1, <1>1, <1>4 DEF Asked
      <3>5. \A s \in Readers \ {r} : Asked(s)'
        BY <3>1, <1>1, <1>4 DEF Asked, TypeOK
      <3> QED
        BY <3>3, <3>4, <3>5
    <2> QED
      BY <2>1, <2>2
  <1> QED
    BY <1>5, <1>6, <1>7

LEMMA ReadStep ==
    ASSUME SourceIInv, NEW r \in Readers, Read(r)
    PROVE  SourceIInv'
  <1> USE DEF SourceIInv
  <1> DEFINE value == Reading(handle[r], total[r])
  <1>1. /\ pc[r] = "read" /\ Answer(r, value)
        /\ cache' = IF value.kind = "snapshot" THEN Stored(stamp[r], value) ELSE cache
        /\ UNCHANGED <<files, newest, path, stamp>>
    BY DEF Read, disk
  <1>2. handle[r] \in FileIds /\ total[r] \in Nat /\ stamp[r] \in StampShape
    BY <1>1 DEF Asked, TypeOK
  <1>3. /\ value \in Snapshot \cup {Unavailable, Raised}
        /\ value.kind = "snapshot" => value \in Snapshot /\ value.file = handle[r]
    BY <1>2, ReadingShape
  <1>4. stamp[r].file <= handle[r] /\ handle[r] <= newest
    BY <1>1 DEF Asked
  <1>5. (path # 0 /\ stamp[r] = Stamp(path)) => value = Reading(path, files[path].length)
    BY <1>1 DEF Asked
  <1> HIDE DEF value
  <1>6. value.kind = "snapshot" => Sound([key |-> stamp[r], value |-> value])
    BY <1>3, <1>4, <1>5 DEF Sound, Asked
  <1>7. /\ cache' \in Seq(Entry)
        /\ Len(cache') <= CacheSize
        /\ \A i \in DOMAIN cache' : Sound(cache'[i])
    <2>1. CASE value.kind = "snapshot"
      BY <2>1, <1>1, <1>2, <1>3, <1>6, StoredAddsOneEntry DEF TypeOK
    <2>2. CASE value.kind # "snapshot"
      BY <2>2, <1>1 DEF TypeOK
    <2> QED
      BY <2>1, <2>2
  <1> QED
    BY <1>1, <1>3, <1>4, <1>7, AnswerStep

LEMMA SourceStep == SourceIInv /\ [Next]_vars => SourceIInv'
  <1> SUFFICES ASSUME SourceIInv, [Next]_vars PROVE SourceIInv'
    OBVIOUS
  <1>1. CASE Grow \/ Replace \/ Remove
    BY <1>1, WriterStep
  <1>2. ASSUME NEW r \in Readers, Ask(r) PROVE SourceIInv'
    BY <1>2, AskStep
  <1>3. ASSUME NEW r \in Readers, Hit(r) PROVE SourceIInv'
    BY <1>3, HitStep
  <1>4. ASSUME NEW r \in Readers, Open(r) \/ Measure(r) PROVE SourceIInv'
    <2>1. CASE path # 0
      BY <1>4, <2>1, InCallStep
    <2>2. CASE path = 0
      <3>1. Answer(r, Unavailable) /\ UNCHANGED <<files, newest, path, stamp, cache>>
        BY <1>4, <2>2 DEF Open, Measure, disk
      <3>2. Unavailable.kind # "snapshot"
        BY DEF Unavailable
      <3> QED
        BY <3>1, <3>2, AnswerStep DEF TypeOK, SourceIInv
    <2> QED
      BY <2>1, <2>2
  <1>5. ASSUME NEW r \in Readers, Read(r) PROVE SourceIInv'
    BY <1>5, ReadStep
  <1>6. CASE UNCHANGED vars
    BY <1>6 DEF vars, SourceIInv, TypeOK, Asked, Sound, Stamp, Reading,
                AnswersMoveForward
  <1> QED
    BY <1>1, <1>2, <1>3, <1>4, <1>5, <1>6 DEF Next, Proceed

LEMMA SourceInvariant == SafeSpec => []SourceIInv
  <1> QED
    BY SourceInit, SourceStep, PTL DEF SafeSpec

----------------------------------------------------------------------------
(* The theorems. *)

\* The variables keep their types, and lru_cache its size.
THEOREM SourceTypeCorrect == SafeSpec => []TypeOK
  <1>1. SourceIInv => TypeOK
    BY DEF SourceIInv
  <1> QED
    BY <1>1, SourceInvariant, PTL

\* Whatever is written to the path and however the threads interleave
\* (get_latest_snapshot, _cached_snapshot), a hit on the revision at the path is
\* what reading that revision gives.
THEOREM CacheCoherent == SafeSpec => []CacheIsCoherent
  <1>1. SourceIInv => CacheIsCoherent
    BY DEF SourceIInv, Sound, CacheIsCoherent
  <1> QED
    BY <1>1, SourceInvariant, PTL

\* No call (get_latest_snapshot) answers from a file that had left the path
\* before it began.
THEOREM AnswersForward == SafeSpec => []AnswersMoveForward
  <1>1. SourceIInv => AnswersMoveForward
    BY DEF SourceIInv
  <1> QED
    BY <1>1, SourceInvariant, PTL

----------------------------------------------------------------------------
(* The register. *)

\* The file is one of the dataset, is never replaced, and is written a line at
\* a time from the start.
WholeLines ==
    /\ ~Tears /\ ~Replaces
    /\ \A content \in Contents :
          content.metropt3 /\ content.flaw = 0 /\ Rest(content.length) = 0

\* What a revision of the file holds lies between what it held when a thread
\* asked and what it holds now.
Between(earlier, record) ==
    Records(earlier) <= record /\ record <= Records(files[1].length)

\* A thread in the call, with the handle and the size it has so far.
Follows(r) ==
    /\ stamp[r].length <= files[1].length
    /\ pc[r] \in {"measure", "read"} => handle[r] = 1
    /\ pc[r] = "read" =>
          /\ stamp[r].length <= total[r] /\ total[r] <= files[1].length
          /\ Rest(total[r]) = 0

\* The invariant that the refinement needs, inductive beside TypeOK: nothing is
\* ever cut, and what is cached was read no earlier than the revision it is
\* stored under.
RegisterIInv ==
    /\ path = 1 /\ newest = 1
    /\ files[1].metropt3 /\ files[1].flaw = 0 /\ Rest(files[1].length) = 0
    /\ \A r \in Readers : Follows(r)
    /\ \A i \in DOMAIN cache : Between(cache[i].key.length, cache[i].value.record)

\* The record of an answer, as the register tells it.
Told(value) == IF value.kind = "snapshot" THEN value.record ELSE 0

LEMMA RecordsGrow ==
    ASSUME NEW m \in Nat, NEW n \in Nat, m <= n
    PROVE  /\ Records(m) \in Nat /\ Records(n) \in Nat
           /\ Records(m) <= Records(n)
  <1>1. CASE m = 0
    BY <1>1, SMT DEF Records
  <1>2. CASE m > 0
    BY <1>2, SMT DEF Records
  <1> QED
    BY <1>1, <1>2

\* A line more is a record more, but for the header line.
LEMMA LineAddsRecord ==
    ASSUME NEW n \in Nat, Rest(n) = 0
    PROVE  LET more == n + (IF n = 0 THEN 1 ELSE 3)
           IN  /\ Rest(more) = 0
               /\ Records(more) = IF n = 0 THEN 0 ELSE Records(n) + 1
  <1>1. CASE n = 0
    BY <1>1, SMT DEF Records, Rest
  <1>2. CASE n # 0
    <2>1. PICK k \in Nat : n = k + 1
      BY <1>2
    <2>2. k % 3 = 0 /\ (k + 3) % 3 = 0 /\ (k + 3) \div 3 = (k \div 3) + 1
      BY <2>1, <1>2, SMT DEF Rest
    <2> QED
      BY <1>2, <2>1, <2>2 DEF Records, Rest
  <1> QED
    BY <1>1, <1>2

\* Reading whole lines gives the last of them, and is unavailable when there is
\* none.
LEMMA ReadingWholeLines ==
    ASSUME TypeOK, RegisterIInv,
           NEW size \in Nat, size <= files[1].length, Rest(size) = 0
    PROVE  /\ Reading(1, size) \in Snapshot \cup {Unavailable}
           /\ Told(Reading(1, size)) = Records(size)
  <1>1. 1 \in FileIds /\ files[1].length \in Nat
    BY SourceAssumption DEF TypeOK, FileIds, ContentShape
  <1>2. Least(size, files[1].length) = size
    BY DEF Least
  <1>3. files[1].metropt3 /\ files[1].flaw = 0
    BY DEF RegisterIInv
  <1>4. CASE size <= 1
    <2>1. Records(size) = 0
      BY <1>4, SMT DEF Records
    <2>2. Reading(1, size) = Unavailable
      BY <1>2, <1>4 DEF Reading
    <2> QED
      BY <2>1, <2>2 DEF Told, Unavailable
  <1>5. CASE size > 1
    <2>1. Records(size) \in Nat /\ Records(size) # 0
      BY <1>5, SMT DEF Records, Rest
    <2> DEFINE value == [kind |-> "snapshot", file |-> 1, record |-> Records(size),
                         cut |-> Rest(size) = 2]
    <2>2. Rest(size) # 2 /\ Rest(size) # 1 /\ Records(size) + 0 = Records(size)
      BY <2>1
    <2>3. Reading(1, size) = value
      BY <1>2, <1>3, <1>5, <2>1, <2>2 DEF Reading
    <2>4. value \in Snapshot
      BY <1>1, <2>1 DEF Snapshot
    <2>5. value.kind = "snapshot" /\ value.record = Records(size)
      OBVIOUS
    <2> QED
      BY <2>3, <2>4, <2>5 DEF Told
  <1> QED
    BY <1>4, <1>5

LEMMA RegisterInit == WholeLines /\ Init => RegisterIInv /\ Register!Init
  <1> SUFFICES ASSUME WholeLines, Init PROVE RegisterIInv /\ Register!Init
    OBVIOUS
  <1>1. 1 \in FileIds
    BY SourceAssumption DEF FileIds
  <1>2. /\ files[1] \in Contents /\ files[1].length \in Nat
    BY <1>1, SourceAssumption DEF Init, ContentShape
  <1>3. \A r \in Readers : Follows(r)
    <2> SUFFICES ASSUME NEW r \in Readers PROVE Follows(r)
      OBVIOUS
    <2>1. stamp[r] = [file |-> 1, length |-> 0] /\ pc[r] = "idle"
      BY DEF Init, NoStamp
    <2>2. stamp[r].length = 0
      BY <2>1
    <2> QED
      BY <1>2, <2>1, <2>2 DEF Follows
  <1>4. RegisterIInv
    BY <1>2, <1>3 DEF Init, RegisterIInv, WholeLines
  <1>5. Records(files[1].length) \in Nat /\ Records(0) = 0
    BY <1>2, RecordsGrow DEF Records
  <1>6. \A r \in Readers : stamp[r].length = 0 /\ reply[r].kind = "none" /\ pc[r] = "idle"
    BY DEF Init, NoStamp, NoAnswer
  <1> QED
    BY <1>4, <1>5, <1>6 DEF Register!Init

\* Writers: a line is written, or the header line.
LEMMA RegisterGrows ==
    ASSUME WholeLines, TypeOK, RegisterIInv, Grow \/ Replace \/ Remove
    PROVE  RegisterIInv' /\ [Register!Next]_(Register!vars)
  <1> USE DEF RegisterIInv
  <1>1. Grow
    BY DEF WholeLines, Replace, Remove
  <1> DEFINE length == files[1].length
             more   == length + (IF length = 0 THEN 1 ELSE 3)
  <1>2. 1 \in FileIds /\ length \in Nat /\ Rest(length) = 0
    BY SourceAssumption DEF TypeOK, FileIds, ContentShape
  <1>3. /\ files' = [files EXCEPT ![1].length = more]
        /\ UNCHANGED <<newest, path, cache, pc, stamp, handle, total, reply>>
    BY <1>1 DEF Grow, WholeLines
  <1>4. files'[1] = [files[1] EXCEPT !.length = more]
    BY <1>2, <1>3 DEF TypeOK
  <1>5. /\ files'[1].length = more
        /\ files'[1].metropt3 = files[1].metropt3 /\ files'[1].flaw = files[1].flaw
    BY <1>2, <1>4 DEF TypeOK, ContentShape
  <1>6. more \in Nat /\ length <= more
    BY <1>2
  <1>7. /\ Rest(more) = 0
        /\ Records(more) = IF length = 0 THEN 0 ELSE Records(length) + 1
    BY <1>2, LineAddsRecord
  <1>8. /\ Records(length) \in Nat /\ Records(more) \in Nat
        /\ Records(length) <= Records(more)
    BY <1>2, <1>6, RecordsGrow
  <1> HIDE DEF more
  <1>9. RegisterIInv'
    <2>1. \A r \in Readers : Follows(r)'
      BY <1>2, <1>3, <1>5, <1>6 DEF Follows, TypeOK, StampShape
    <2>2. \A i \in DOMAIN cache' : Between(cache[i].key.length, cache[i].value.record)'
      <3> SUFFICES ASSUME NEW i \in DOMAIN cache
                   PROVE  Between(cache[i].key.length, cache[i].value.record)'
        BY <1>3
      <3>1. cache[i] \in Entry
        BY DEF TypeOK
      <3>2. cache[i].value.record \in Nat
        BY <3>1 DEF Entry, Snapshot
      <3>3. cache'[i] = cache[i]
        BY <1>3
      <3> QED
        BY <3>2, <3>3, <1>5, <1>8 DEF Between
    <2> QED
      BY <1>3, <1>5, <1>7, <2>1, <2>2
  <1>10. CASE length = 0
    <2>1. Records(0) = 0
      BY DEF Records
    <2>2. UNCHANGED Register!vars
      BY <2>1, <1>3, <1>5, <1>7, <1>10 DEF Register!vars
    <2> QED
      BY <1>9, <2>2
  <1>11. CASE length # 0
    <2>1. Register!Grow
      BY <1>3, <1>5, <1>7, <1>11 DEF Register!Grow
    <2> QED
      BY <1>9, <2>1 DEF Register!Next
  <1> QED
    BY <1>10, <1>11

\* A call that ends with a record between those of its beginning and its end, and
\* leaves such a cache, tells what the register may tell.
LEMMA RegisterTells ==
    ASSUME TypeOK, RegisterIInv, NEW r \in Readers,
           pc[r] \in {"lookup", "measure", "read"},
           NEW value \in Snapshot \cup {Unavailable}, Answer(r, value),
           Between(stamp[r].length, Told(value)),
           UNCHANGED <<files, newest, path, stamp>>,
           \A i \in DOMAIN cache' : Between(cache'[i].key.length, cache'[i].value.record)
    PROVE  RegisterIInv' /\ [Register!Next]_(Register!vars)
  <1>1. pc' = [pc EXCEPT ![r] = "done"] /\ reply' = [reply EXCEPT ![r] = value]
    BY DEF Answer
  <1>2. \A s \in Readers \ {r} : /\ pc'[s] = pc[s]
                                 /\ handle'[s] = handle[s] /\ total'[s] = total[s]
    BY DEF Answer, TypeOK
  <1>3. \A s \in Readers : Follows(s)'
    <2>1. pc'[r] = "done"
      BY <1>1 DEF TypeOK
    <2> QED
      BY <1>2, <2>1 DEF Follows, RegisterIInv
  <1>4. RegisterIInv'
    BY <1>3 DEF RegisterIInv, Between
  <1>5. Told(value) \in Nat
    BY DEF Told, Snapshot, Unavailable
  <1>6. /\ stamp[r].length \in Nat /\ files[1].length \in Nat
    <2>1. 1 \in FileIds
      BY SourceAssumption DEF FileIds
    <2> QED
      BY <2>1 DEF TypeOK, StampShape, ContentShape
  <1>7. Told(value) \in Records(stamp[r].length) .. Records(files[1].length)
    BY <1>5, <1>6, RecordsGrow DEF Between
  <1> DEFINE phase == [s \in Readers |-> IF pc[s] \in {"idle", "done"} THEN pc[s] ELSE "asked"]
             told  == [s \in Readers |->
                         IF reply[s].kind = "snapshot" THEN reply[s].record ELSE 0]
  <1>8. phase[r] = "asked" /\ phase' = [phase EXCEPT ![r] = "done"]
    BY <1>1 DEF TypeOK
  <1>9. told' = [told EXCEPT ![r] = Told(value)]
    BY <1>1 DEF TypeOK, Told
  <1>10. Register!Tell(r)
    BY <1>7, <1>8, <1>9 DEF Register!Tell
  <1> QED
    BY <1>4, <1>10 DEF Register!Next

LEMMA RegisterAsks ==
    ASSUME TypeOK, RegisterIInv, NEW r \in Readers, Ask(r)
    PROVE  RegisterIInv' /\ [Register!Next]_(Register!vars)
  <1> USE DEF RegisterIInv
  <1>1. /\ pc[r] \in {"idle", "done"}
        /\ stamp' = [stamp EXCEPT ![r] = [file |-> 1, length |-> files[1].length]]
        /\ pc' = [pc EXCEPT ![r] = "lookup"]
        /\ reply' = [reply EXCEPT ![r] = NoAnswer]
        /\ UNCHANGED <<files, newest, path, cache, handle, total>>
    BY DEF Ask, disk, Stamp
  <1>2. 1 \in FileIds /\ files[1].length \in Nat
    BY SourceAssumption DEF TypeOK, FileIds, ContentShape
  <1>3. \A s \in Readers : Follows(s)'
    <2> SUFFICES ASSUME NEW s \in Readers PROVE Follows(s)'
      OBVIOUS
    <2>1. CASE s = r
      <3>1. pc'[r] = "lookup" /\ stamp'[r] = [file |-> 1, length |-> files[1].length]
        BY <1>1 DEF TypeOK
      <3>2. stamp'[r].length = files[1].length
        BY <3>1
      <3> QED
        BY <2>1, <3>1, <3>2, <1>1, <1>2 DEF Follows
    <2>2. CASE s # r
      BY <2>2, <1>1 DEF Follows, TypeOK
    <2> QED
      BY <2>1, <2>2
  <1>4. RegisterIInv'
    BY <1>1, <1>3 DEF Between
  <1> DEFINE phase  == [s \in Readers |-> IF pc[s] \in {"idle", "done"} THEN pc[s] ELSE "asked"]
             oldest == [s \in Readers |-> Records(stamp[s].length)]
             told   == [s \in Readers |->
                          IF reply[s].kind = "snapshot" THEN reply[s].record ELSE 0]
  <1>5. phase[r] # "asked" /\ phase' = [phase EXCEPT ![r] = "asked"]
    BY <1>1 DEF TypeOK
  <1>6. oldest' = [oldest EXCEPT ![r] = Records(files[1].length)]
    BY <1>1 DEF TypeOK
  <1>7. told' = [told EXCEPT ![r] = 0]
    BY <1>1 DEF TypeOK, NoAnswer
  <1>8. Register!Ask(r)
    BY <1>1, <1>5, <1>6, <1>7 DEF Register!Ask
  <1> QED
    BY <1>4, <1>8 DEF Register!Next

\* The register sees nothing of a look at the file system.
LEMMA RegisterLooks ==
    ASSUME TypeOK, RegisterIInv, NEW r \in Readers, Open(r) \/ Measure(r)
    PROVE  RegisterIInv' /\ [Register!Next]_(Register!vars)
  <1> USE DEF RegisterIInv
  <1>1. UNCHANGED <<files, newest, path, cache, stamp, reply>>
    BY DEF Open, Measure, disk
  <1>2. 1 \in FileIds /\ files[1].length \in Nat /\ stamp[r].length \in Nat
    BY SourceAssumption DEF TypeOK, FileIds, ContentShape, StampShape
  <1>3. /\ \A s \in Readers : Follows(s)'
        /\ pc[r] \in {"lookup", "measure"}
        /\ pc' \in {[pc EXCEPT ![r] = "measure"], [pc EXCEPT ![r] = "read"]}
    <2>1. CASE Open(r)
      <3>1. /\ pc[r] = "lookup" /\ pc' = [pc EXCEPT ![r] = "measure"]
            /\ handle' = [handle EXCEPT ![r] = 1] /\ total' = total
        BY <2>1 DEF Open
      <3> QED
        BY <3>1, <1>1 DEF Follows, TypeOK
    <2>2. CASE Measure(r)
      <3>1. /\ pc[r] = "measure" /\ pc' = [pc EXCEPT ![r] = "read"]
            /\ handle[r] = 1 /\ handle' = handle
            /\ total' = [total EXCEPT ![r] = files[1].length]
        BY <2>2 DEF Measure, Follows
      <3>2. Follows(r)'
        <4>1. pc'[r] = "read" /\ total'[r] = files[1].length
          BY <3>1 DEF TypeOK
        <4> QED
          BY <3>1, <4>1, <1>1, <1>2 DEF Follows
      <3>3. \A s \in Readers \ {r} : Follows(s)'
        BY <3>1, <1>1 DEF Follows, TypeOK
      <3> QED
        BY <3>1, <3>2, <3>3
    <2> QED
      BY <2>1, <2>2
  <1>4. RegisterIInv'
    BY <1>1, <1>3 DEF Between
  <1>5. UNCHANGED [s \in Readers |-> IF pc[s] \in {"idle", "done"} THEN pc[s] ELSE "asked"]
    BY <1>3 DEF TypeOK
  <1>6. UNCHANGED Register!vars
    BY <1>1, <1>5 DEF Register!vars
  <1> QED
    BY <1>4, <1>6

LEMMA RegisterHits ==
    ASSUME TypeOK, RegisterIInv, NEW r \in Readers, Hit(r)
    PROVE  RegisterIInv' /\ [Register!Next]_(Register!vars)
  <1>1. PICK i \in DOMAIN cache : /\ cache[i].key = stamp[r]
                                  /\ Answer(r, cache[i].value)
                                  /\ cache' = Touched(i)
    BY DEF Hit
  <1>2. pc[r] = "lookup" /\ UNCHANGED <<files, newest, path, stamp>>
    BY DEF Hit, disk
  <1>3. \A j \in DOMAIN cache' : Between(cache'[j].key.length, cache'[j].value.record)
    BY <1>1, TouchedKeepsEntries DEF TypeOK, RegisterIInv
  <1>4. cache[i].value \in Snapshot
    <2>1. cache[i] \in Entry
      BY DEF TypeOK
    <2> QED
      BY <2>1 DEF Entry
  <1>5. Between(stamp[r].length, Told(cache[i].value))
    BY <1>1, <1>4 DEF Told, Snapshot, RegisterIInv
  <1> QED
    BY <1>1, <1>2, <1>3, <1>4, <1>5, RegisterTells

LEMMA RegisterReads ==
    ASSUME TypeOK, RegisterIInv, NEW r \in Readers, Read(r)
    PROVE  RegisterIInv' /\ [Register!Next]_(Register!vars)
  <1> DEFINE value == Reading(1, total[r])
  <1>1. /\ pc[r] = "read" /\ handle[r] = 1
        /\ Answer(r, value)
        /\ cache' = IF value.kind = "snapshot" THEN Stored(stamp[r], value) ELSE cache
        /\ UNCHANGED <<files, newest, path, stamp>>
    BY DEF Read, disk, RegisterIInv, Follows
  <1>2. /\ stamp[r].length <= total[r] /\ total[r] <= files[1].length
        /\ Rest(total[r]) = 0
    BY <1>1 DEF RegisterIInv, Follows
  <1>3. /\ stamp[r] \in StampShape /\ stamp[r].length \in Nat
        /\ total[r] \in Nat /\ files[1].length \in Nat
    <2>1. 1 \in FileIds
      BY SourceAssumption DEF FileIds
    <2> QED
      BY <2>1 DEF TypeOK, StampShape, ContentShape
  <1>4. value \in Snapshot \cup {Unavailable} /\ Told(value) = Records(total[r])
    BY <1>2, <1>3, ReadingWholeLines
  <1>5. Between(stamp[r].length, Told(value))
    BY <1>2, <1>3, <1>4, RecordsGrow DEF Between
  <1> HIDE DEF value
  <1>6. \A i \in DOMAIN cache' : Between(cache'[i].key.length, cache'[i].value.record)
    <2>1. CASE value.kind = "snapshot"
      <3>1. value \in Snapshot /\ Told(value) = value.record
        BY <2>1, <1>4 DEF Unavailable, Told
      <3>2. \A i \in DOMAIN cache' : \/ cache'[i] = [key |-> stamp[r], value |-> value]
                                     \/ \E k \in DOMAIN cache : cache'[i] = cache[k]
        BY <2>1, <3>1, <1>1, <1>3, StoredAddsOneEntry DEF TypeOK
      <3> QED
        BY <3>1, <3>2, <1>5 DEF RegisterIInv
    <2>2. CASE value.kind # "snapshot"
      BY <2>2, <1>1 DEF RegisterIInv
    <2> QED
      BY <2>1, <2>2
  <1> QED
    BY <1>1, <1>4, <1>5, <1>6, RegisterTells

LEMMA RegisterStep ==
    WholeLines /\ TypeOK /\ RegisterIInv /\ [Next]_vars
      => RegisterIInv' /\ [Register!Next]_(Register!vars)
  <1> SUFFICES ASSUME WholeLines, TypeOK, RegisterIInv, [Next]_vars
               PROVE  RegisterIInv' /\ [Register!Next]_(Register!vars)
    OBVIOUS
  <1>1. CASE Grow \/ Replace \/ Remove
    BY <1>1, RegisterGrows
  <1>2. ASSUME NEW r \in Readers, Ask(r) \/ Proceed(r)
        PROVE  RegisterIInv' /\ [Register!Next]_(Register!vars)
    BY <1>2, RegisterAsks, RegisterHits, RegisterLooks, RegisterReads DEF Proceed
  <1>3. CASE UNCHANGED vars
    BY <1>3 DEF vars, RegisterIInv, Follows, Between, Register!vars
  <1> QED
    BY <1>1, <1>2, <1>3 DEF Next

\* Of a well-formed file that grows by whole lines, any number of threads, through
\* one cache of any size (get_latest_snapshot), are told records that were the
\* last one at some moment of their calls: the source implements DeviceRegister.
\* What ImplementsRegister says beyond this is liveness.
THEOREM RegisterIsKept ==
    ASSUME WholeLines
    PROVE  SafeSpec => Register!SafeSpec
  <1>1. Init => RegisterIInv /\ Register!Init
    BY RegisterInit
  <1>2. TypeOK /\ RegisterIInv /\ [Next]_vars
           => RegisterIInv' /\ [Register!Next]_(Register!vars)
    BY RegisterStep
  <1> QED
    BY <1>1, <1>2, SourceTypeCorrect, PTL DEF SafeSpec, Register!SafeSpec

=============================================================================
