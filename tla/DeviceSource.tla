---------------------------- MODULE DeviceSource ----------------------------
(***************************************************************************)
(* The MetroPT-3 device source: worker threads ask for the last record of  *)
(* a CSV file that somebody else appends to, replaces or removes.  A       *)
(* thread stats the path, looks the stamp up in a bounded cache shared by  *)
(* the process and, on a miss, opens the path, measures it, reads the tail *)
(* and stores the snapshot under the stamp it started from.                *)
(*                                                                         *)
(* A file is measured in pieces: the header line is the first, and a       *)
(* record is three: some of its fields, the rest of its text but the end   *)
(* of the last field, and that end with the newline.  The window in which  *)
(* the tail is read is left out: it grows until it holds the last line.    *)
(***************************************************************************)
EXTENDS Naturals, Sequences

CONSTANTS
    Readers,        \* worker threads in the device tool
    CacheSize,      \* lru_cache(maxsize=8)
    Contents,       \* what a file may hold when it appears at the path
    MaxFiles,       \* bound: files that appear at the path
    MaxLength,      \* bound: pieces a file grows to
    Tears,          \* may an append end inside a record
    Replaces        \* may the file be replaced or removed

\* The columns are those of the dataset or not; flaw is the record, if any,
\* with a field that is neither blank nor a number.
ContentShape == [length : Nat, metropt3 : BOOLEAN, flaw : Nat]

ASSUME SourceAssumption ==
    /\ CacheSize \in Nat \ {0}
    /\ MaxFiles \in Nat \ {0}
    /\ MaxLength \in Nat
    /\ Tears \in BOOLEAN /\ Replaces \in BOOLEAN
    /\ Contents \subseteq ContentShape

FileIds == 1 .. MaxFiles

Snapshot == [kind : {"snapshot"}, file : FileIds, record : Nat, cut : BOOLEAN]

\* DeviceDataSourceError, which the tool turns into an error on its output, and
\* any other exception, which fails the invocation.
Unavailable == [kind |-> "unavailable"]

Raised == [kind |-> "raised"]

NoAnswer == [kind |-> "none"]

\* (size, mtime_ns): no two revisions of the path have the same one.
StampShape == [file : FileIds, length : Nat]

NoStamp == [file |-> 1, length |-> 0]

VARIABLES
    files,          \* every file that was ever at the path
    newest,         \* the last of them
    path,           \* the one at the path now, 0 when there is none
    cache,          \* entries of _cached_snapshot, least recently used first
    pc,             \* where each thread stands
    stamp,          \* the revision it asked for
    handle,         \* the file it opened
    total,          \* the size it measured
    reply           \* what the tool got

vars == <<files, newest, path, cache, pc, stamp, handle, total, reply>>

disk == <<files, newest, path>>

----------------------------------------------------------------------------
(* Reading. *)

\* Complete records, and pieces of an incomplete one, in the first n pieces.
Records(n) == IF n = 0 THEN 0 ELSE (n - 1) \div 3

Rest(n) == IF n = 0 THEN 0 ELSE (n - 1) % 3

Least(m, n) == IF m <= n THEN m ELSE n

\* Mutant of Reading: the last line is always taken for an incomplete one.
Reading_DropsLastLine(id, size) ==
    LET content == files[id]
        seen    == Least(size, content.length)
        record  == Records(seen) - 1
    IN  IF ~content.metropt3 \/ seen <= 4 \/ Rest(seen) = 1 THEN Unavailable
        ELSE IF record = content.flaw THEN Raised
        ELSE [kind |-> "snapshot", file |-> id, record |-> record, cut |-> Rest(seen) = 2]

\* _read_columns, _read_last_record and _snapshot_from_record on a file taken to
\* be size pieces long: the last line that is not blank is the record, whether a
\* newline ends it or not.  A line with fields missing is refused, one whose last
\* field is cut short is not.
Reading(id, size) ==
    LET content == files[id]
        seen    == Least(size, content.length)
        record  == Records(seen) + (IF Rest(seen) = 2 THEN 1 ELSE 0)
    IN  IF ~content.metropt3 \/ seen <= 1 \/ Rest(seen) = 1 THEN Unavailable
        ELSE IF record = content.flaw THEN Raised
        ELSE [kind |-> "snapshot", file |-> id, record |-> record, cut |-> Rest(seen) = 2]

\* Mutant of Stamp: the size alone identifies a revision.
Stamp_SizeOnly(id) == [file |-> 1, length |-> files[id].length]

Stamp(id) == [file |-> id, length |-> files[id].length]

Cached(key) == \E i \in DOMAIN cache : cache[i].key = key

\* A hit makes its entry the most recently used one.
Touched(i) ==
    [j \in DOMAIN cache |->
        IF j < i THEN cache[j]
        ELSE IF j < Len(cache) THEN cache[j + 1] ELSE cache[i]]

\* Mutant of Stored: nothing is evicted.
Stored_NoEviction(key, value) ==
    IF Cached(key) THEN cache ELSE Append(cache, [key |-> key, value |-> value])

\* A value computed meanwhile by another thread is kept; a full cache evicts.
Stored(key, value) ==
    IF Cached(key) THEN cache
    ELSE Append(IF Len(cache) < CacheSize THEN cache ELSE Tail(cache),
                [key |-> key, value |-> value])

----------------------------------------------------------------------------
Init ==
    /\ newest = 1 /\ path = 1
    /\ \E content \in Contents : files = [id \in FileIds |-> content]
    /\ cache = <<>>
    /\ pc = [r \in Readers |-> "idle"]
    /\ stamp = [r \in Readers |-> NoStamp]
    /\ handle = [r \in Readers |-> 0]
    /\ total = [r \in Readers |-> 0]
    /\ reply = [r \in Readers |-> NoAnswer]

(* Whoever writes the file. *)

\* A write adds a piece, or, when writes are whole lines, a line.
Grow ==
    /\ path # 0
    /\ LET length == files[path].length
           added  == IF Tears \/ length = 0 THEN 1 ELSE 3
       IN  /\ length + added <= MaxLength
           /\ files' = [files EXCEPT ![path].length = length + added]
    /\ UNCHANGED <<newest, path, cache, pc, stamp, handle, total, reply>>

\* Another file is moved to the path; open handles keep the one they have.
Replace ==
    /\ Replaces /\ newest < MaxFiles
    /\ newest' = newest + 1 /\ path' = newest + 1
    /\ \E content \in Contents : files' = [files EXCEPT ![newest + 1] = content]
    /\ UNCHANGED <<cache, pc, stamp, handle, total, reply>>

Remove ==
    /\ Replaces /\ path # 0
    /\ path' = 0
    /\ UNCHANGED <<files, newest, cache, pc, stamp, handle, total, reply>>

----------------------------------------------------------------------------
(* get_latest_snapshot, one step for each look at the file system. *)

\* The handle and the size are gone when the call returns.
Answer(r, value) ==
    /\ reply' = [reply EXCEPT ![r] = value]
    /\ pc' = [pc EXCEPT ![r] = "done"]
    /\ handle' = [handle EXCEPT ![r] = 0]
    /\ total' = [total EXCEPT ![r] = 0]

\* path.stat(); a missing file is an unavailable source.
Ask(r) ==
    /\ pc[r] \in {"idle", "done"}
    /\ IF path = 0
       THEN Answer(r, Unavailable) /\ UNCHANGED stamp
       ELSE /\ stamp' = [stamp EXCEPT ![r] = Stamp(path)]
            /\ pc' = [pc EXCEPT ![r] = "lookup"]
            /\ reply' = [reply EXCEPT ![r] = NoAnswer]
            /\ UNCHANGED <<handle, total>>
    /\ UNCHANGED <<disk, cache>>

\* Mutant of Hit: the entry that was stored or used last answers every revision.
Hit_AnyRevision(r) ==
    /\ pc[r] = "lookup" /\ cache # <<>>
    /\ Answer(r, cache[Len(cache)].value)
    /\ UNCHANGED <<disk, cache, stamp>>

\* _cached_snapshot holds the revision.
Hit(r) ==
    /\ pc[r] = "lookup"
    /\ \E i \in DOMAIN cache :
          /\ cache[i].key = stamp[r]
          /\ Answer(r, cache[i].value)
          /\ cache' = Touched(i)
    /\ UNCHANGED <<disk, stamp>>

\* It does not, and the path is opened; lru_cache runs the function unlocked.
Open(r) ==
    /\ pc[r] = "lookup" /\ ~Cached(stamp[r])
    /\ IF path = 0
       THEN Answer(r, Unavailable)
       ELSE /\ handle' = [handle EXCEPT ![r] = path]
            /\ pc' = [pc EXCEPT ![r] = "measure"]
            /\ UNCHANGED <<total, reply>>
    /\ UNCHANGED <<disk, cache, stamp>>

\* path.stat() again: the size of the file at the path, which need not be the
\* one that was opened.  Sizes of different files do not compare piece by piece.
Measure(r) ==
    /\ pc[r] = "measure"
    /\ IF path = 0
       THEN Answer(r, Unavailable)
       ELSE /\ \E size \in IF path = handle[r] THEN {files[path].length}
                           ELSE 0 .. MaxLength :
                  total' = [total EXCEPT ![r] = size]
            /\ pc' = [pc EXCEPT ![r] = "read"]
            /\ UNCHANGED <<handle, reply>>
    /\ UNCHANGED <<disk, cache, stamp>>

\* Header and tail are read; lru_cache stores what is returned, not what is
\* raised.
Read(r) ==
    /\ pc[r] = "read"
    /\ LET value == Reading(handle[r], total[r])
       IN  /\ Answer(r, value)
           /\ cache' = IF value.kind = "snapshot" THEN Stored(stamp[r], value) ELSE cache
    /\ UNCHANGED <<disk, stamp>>

Proceed(r) == Hit(r) \/ Open(r) \/ Measure(r) \/ Read(r)

Next ==
    \/ Grow \/ Replace \/ Remove
    \/ \E r \in Readers : Ask(r) \/ Proceed(r)

SafeSpec == Init /\ [][Next]_vars

\* A thread that has asked goes on; nobody has to write the file or to ask.
Spec == SafeSpec /\ \A r \in Readers : WF_vars(Proceed(r))

----------------------------------------------------------------------------
(* Properties. *)

Entry == [key : StampShape, value : Snapshot]

TypeOK ==
    /\ files \in [FileIds -> ContentShape]
    /\ newest \in FileIds /\ path \in {0, newest}
    /\ cache \in Seq(Entry) /\ Len(cache) <= CacheSize
    /\ pc \in [Readers -> {"idle", "lookup", "measure", "read", "done"}]
    /\ stamp \in [Readers -> StampShape]
    /\ handle \in [Readers -> FileIds \cup {0}]
    /\ total \in [Readers -> Nat]
    /\ reply \in [Readers -> Snapshot \cup {Unavailable, Raised, NoAnswer}]

\* Replacing or appending to the file invalidates the cache by itself
\* (_cached_snapshot, _read_snapshot): although a snapshot may be read from a
\* later revision than the one it is stored under, and from another file, a hit
\* on the revision at the path is what reading that revision gives.
CacheIsCoherent ==
    path # 0 =>
        \A i \in DOMAIN cache : cache[i].key = Stamp(path) =>
            cache[i].value = Reading(path, files[path].length)

\* Whatever a thread finds in the cache or reads (get_latest_snapshot), it does
\* not answer from a file that had left the path before it asked.
AnswersMoveForward ==
    \A r \in Readers : reply[r].kind = "snapshot" =>
        /\ stamp[r].file <= reply[r].file
        /\ reply[r].file <= newest

\* When the file is well formed and only ever grows by whole lines, the source
\* is a register: an answer is a record that was the last one at some moment of
\* the call.
Register ==
    INSTANCE DeviceRegister WITH
        latest <- Records(files[1].length),
        phase <- [r \in Readers |-> IF pc[r] \in {"idle", "done"} THEN pc[r] ELSE "asked"],
        oldest <- [r \in Readers |-> Records(stamp[r].length)],
        told <- [r \in Readers |->
                   IF reply[r].kind = "snapshot" THEN reply[r].record ELSE 0]

ImplementsRegister == Register!Spec

----------------------------------------------------------------------------
(* A statement of the documentation that the code does not live up to. *)

\* _read_last_record: "Return the last complete line of the file".  The last line
\* that is not blank is taken, ended or not.
OnlyCompleteLines ==
    \A r \in Readers : reply[r].kind = "snapshot" => ~reply[r].cut
=============================================================================
