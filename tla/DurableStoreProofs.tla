------------------------- MODULE DurableStoreProofs -------------------------
(***************************************************************************)
(* What DurableStore guarantees for all threads, keys and values, for a    *)
(* log of any length and for any number of crashes, on a file system whose *)
(* fsync makes the name of a new file durable.                             *)
(***************************************************************************)
EXTENDS DurableStore, SequenceTheorems, TLAPS

\* Replacing the last element of a sequence leaves the others alone.
LEMMA LastReplaced ==
    ASSUME NEW S, NEW f \in Seq(S), NEW e \in S, NEW g, g = [f EXCEPT ![Len(f)] = e],
           NEW i \in 1 .. (Len(f) - 1)
    PROVE  i \in 1 .. Len(g) /\ g[i] = f[i]
  OBVIOUS

\* Only the last entry of a file f may be torn.
TornLast(f) == \A i \in 1 .. Len(f) : f[i] \in Torn => i = Len(f)

\* Stable storage and the file agree on their first n entries.
Agree(n) ==
    /\ n \in 1 .. Len(file) /\ n \in 1 .. Len(disk)
    /\ \A i \in 1 .. n : disk[i] = file[i]

\* Where thread t is in append_record says what it has put behind the applied
\* entries: nothing, a torn frame, its record, its record on stable storage.
InStep(t) ==
    /\ at[t] = "write" => Len(file) = applied
    /\ at[t] \in {"writeMore", "sync", "apply"} => Len(file) = applied + 1
    /\ at[t] = "writeMore" => file[Len(file)] \in Torn
    /\ at[t] \in {"sync", "apply"} => file[Len(file)] = request[t]
    /\ at[t] = "apply" => disk = file

\* What memory and the file have to do with each other in each phase.
InPhase ==
    /\ \A i \in 1 .. applied : file[i] \in Mutation
    /\ phase = "repair" => Len(file) = applied
    /\ phase = "up" => Len(file) <= applied + 1
    /\ phase = "up" /\ fd /\ lock = {} => Len(file) = applied
    /\ phase # "up" => missed = {}
    /\ \A i \in missed : Agree(i)

\* An answered mutation is in its place, on stable storage with all that comes
\* before it, and a server past its recovery has applied it.
AckedInPlace ==
    \A a \in acked :
        /\ Agree(a[1]) /\ file[a[1]] = a[2]
        /\ phase \in {"repair", "up"} => a[1] <= applied
        /\ a[1] \notin missed

IInv ==
    /\ TypeOK
    /\ TornLast(file) /\ TornLast(disk)
    /\ \A t \in Thread : InStep(t)
    /\ InPhase
    /\ AckedInPlace
    /\ Len(disk) > 0 => linked

-----------------------------------------------------------------------------
(* Files *)

\* A record is not a torn entry, and recovery can tell which one it reads.
LEMMA Kinds ==
    /\ \A e \in Mutation : e \in Entry /\ e \notin Torn /\ e.kind = "complete" /\ e.key \in Key
                           /\ e.value \in Value \cup {Absent}
    /\ \A e \in Torn : e \in Entry /\ e \notin Mutation
    /\ \A e \in Entry : e.kind # "complete" => e \in Torn
    /\ \A e \in Entry : e.kind = "complete" => e \in Mutation
  BY Zenon DEF Mutation, Torn, Entry

\* The first n entries of a file are a file.
LEMMA Prefix ==
    ASSUME NEW f \in Seq(Entry), NEW n \in 0 .. Len(f)
    PROVE  /\ SubSeq(f, 1, n) \in Seq(Entry)
           /\ Len(SubSeq(f, 1, n)) = n
           /\ \A i \in 1 .. n : SubSeq(f, 1, n)[i] = f[i]
  <1>1. Len(f) \in Nat /\ \A i \in 1 .. n : f[i] \in Entry
    BY LenProperties, ElementOfSeq
  <1>2. QED
    BY <1>1, SubSeqProperties

\* Files with the same first entries have the same prefix.
LEMMA SamePrefix ==
    ASSUME NEW f \in Seq(Entry), NEW g \in Seq(Entry), NEW n \in 0 .. Len(f), n <= Len(g)
    PROVE  SubSeq(f, 1, n) = SubSeq(g, 1, n) <=> \A i \in 1 .. n : f[i] = g[i]
  <1>1. n \in 0 .. Len(g)
    BY LenProperties
  <1>2. /\ SubSeq(f, 1, n) \in Seq(Entry) /\ Len(SubSeq(f, 1, n)) = n
        /\ SubSeq(g, 1, n) \in Seq(Entry) /\ Len(SubSeq(g, 1, n)) = n
        /\ \A i \in 1 .. n : SubSeq(f, 1, n)[i] = f[i] /\ SubSeq(g, 1, n)[i] = g[i]
    BY <1>1, Prefix, Zenon
  <1>3. ASSUME \A i \in 1 .. n : f[i] = g[i] PROVE SubSeq(f, 1, n) = SubSeq(g, 1, n)
    BY <1>2, <1>3, SeqEqual, Zenon
  <1>4. QED
    BY <1>2, <1>3, Zenon

\* What a power loss leaves has torn entries only at its end and keeps the
\* entries that the file and stable storage agree on.
LEMMA SurvivorKeeps ==
    ASSUME file \in Seq(Entry), disk \in Seq(Entry), TornLast(file), TornLast(disk),
           NEW g \in Survivors
    PROVE  /\ g \in Seq(Entry) /\ TornLast(g)
           /\ \A n : Agree(n) => n \in 1 .. Len(g) /\ \A i \in 1 .. n : g[i] = file[i]
  <1>0. /\ Len(file) \in Nat /\ Len(disk) \in Nat
        /\ \A i \in 1 .. Len(file) : file[i] \in Entry
    BY LenProperties, ElementOfSeq, Zenon
  <1>1. ASSUME NEW c \in Cuts
        PROVE  c \in 0 .. Len(file) /\ \A n : Agree(n) => n <= c
    <2>1. c \in 0 .. Len(file)
      BY Zenon DEF Cuts
    <2>2. ASSUME NEW n, Agree(n), ~(n <= c) PROVE FALSE
      <3>1. n \in (c + 1) .. Len(file) /\ n <= Len(disk) /\ n \in 0 .. Len(disk) /\ n <= Len(file)
        BY <1>0, <2>1, <2>2 DEF Agree
      <3>2. SubSeq(disk, 1, n) = SubSeq(file, 1, n)
        BY <2>2, <3>1, SamePrefix, Zenon DEF Agree
      <3>3. QED
        BY <3>1, <3>2, Zenon DEF Cuts
    <2>3. QED
      BY <2>1, <2>2, Zenon
  <1>2. CASE g = disk
    BY <1>0, <1>2, Zenon DEF Agree
  <1>3. ASSUME NEW c \in Cuts, g = SubSeq(file, 1, c)
        PROVE  /\ g \in Seq(Entry) /\ TornLast(g)
               /\ \A n : Agree(n) => n \in 1 .. Len(g) /\ \A i \in 1 .. n : g[i] = file[i]
    <2>1. g \in Seq(Entry) /\ Len(g) = c /\ \A i \in 1 .. c : g[i] = file[i]
      BY <1>1, <1>3, Prefix, Zenon
    <2>2. c \in Nat /\ c <= Len(file) /\ \A n : Agree(n) => n <= c
      BY <1>0, <1>1
    <2>3. TornLast(g)
      BY <1>0, <2>1, <2>2 DEF TornLast
    <2>4. QED
      BY <1>0, <2>1, <2>2, <2>3 DEF Agree
  <1>4. ASSUME NEW c \in Cuts \ {Len(file)}, NEW torn \in Torn,
               g = Append(SubSeq(file, 1, c), torn)
        PROVE  /\ g \in Seq(Entry) /\ TornLast(g)
               /\ \A n : Agree(n) => n \in 1 .. Len(g) /\ \A i \in 1 .. n : g[i] = file[i]
    <2> DEFINE p == SubSeq(file, 1, c)
    <2>1. p \in Seq(Entry) /\ Len(p) = c /\ \A i \in 1 .. c : p[i] = file[i]
      BY <1>1, <1>4, Prefix, Zenon
    <2>2. torn \in Entry /\ g = Append(p, torn)
      BY <1>4, Kinds, Zenon
    <2> HIDE DEF p
    <2>3. g \in Seq(Entry) /\ Len(g) = c + 1 /\ \A i \in 1 .. c : g[i] = file[i]
      BY <2>1, <2>2, AppendProperties
    <2>4. QED
      BY <1>0, <1>1, <1>4, <2>3, SMT, SMTT(30) DEF Agree, TornLast
  <1>5. \/ g = disk
        \/ \E c \in Cuts : g = SubSeq(file, 1, c)
        \/ \E c \in Cuts \ {Len(file)} : \E torn \in Torn : g = Append(SubSeq(file, 1, c), torn)
    BY Zenon DEF Survivors
  <1>6. QED
    BY <1>2, <1>3, <1>4, <1>5, Zenon

-----------------------------------------------------------------------------
(* The inductive invariant *)

\* An empty log and a server that has not been started.
LEMMA InitIInv == Init => IInv
  <1> SUFFICES ASSUME Init PROVE IInv
    BY Zenon
  <1>1. file = <<>> /\ disk = <<>> /\ <<>> \in Seq(Entry) /\ Len(<<>>) = 0 /\ applied = 0 /\ missed = {}
    BY EmptySeq, Zenon DEF Init
  <1>2. store \in [Key -> Value \cup {Absent}] /\ lock = {t \in Thread : at[t] # "idle"}
    BY Zenon DEF Init, Empty
  <1>3. TypeOK
    <2>1. at \in [Thread -> {"idle"}] /\ request \in [Thread -> {NoRequest}]
      BY Zenon DEF Init
    <2>2. applied \in 0 .. Len(file)
      BY <1>1
    <2>3. lock = {} /\ acked = {} /\ linked = FALSE /\ fd = FALSE /\ phase = "down"
      BY Zenon DEF Init
    <2>4. QED
      BY <1>1, <1>2, <2>1, <2>2, <2>3, Zenon DEF TypeOK
  <1>4. QED
    BY <1>1, <1>3 DEF Init, IInv, TornLast, InStep, InPhase, AckedInPlace

\* A step of a handler that holds the mutex and stays at work: what it does to
\* the file and where it goes on.
LEMMA WriterStep ==
    ASSUME IInv, NEW t \in Thread, at[t] # "idle", NEW label \in {"writeMore", "sync", "apply"},
           Goto(t, label), InStep(t)',
           UNCHANGED <<fd, phase, store, applied, missed, lock, request, acked>>,
           file' \in Seq(Entry), Len(file') = applied + 1, TornLast(file)',
           \A i \in 1 .. applied : file'[i] = file[i],
           disk' \in Seq(Entry), TornLast(disk)', linked' \in BOOLEAN, Len(disk') > 0 => linked',
           \A n \in 1 .. applied : Agree(n) => Agree(n)'
    PROVE  IInv'
  <1>1. /\ at \in [Thread -> {"idle", "write", "writeMore", "sync", "apply"}]
        /\ applied \in Nat /\ lock = {t} /\ phase = "up" /\ request[t] \in Mutation
        /\ lock = {u \in Thread : at[u] # "idle"}
    BY LenProperties DEF IInv, TypeOK
  <1>2. at' = [at EXCEPT ![t] = label]
    BY Zenon DEF Goto
  <1>3. TypeOK'
    <2>1. at' \in [Thread -> {"idle", "write", "writeMore", "sync", "apply"}]
      BY <1>1, <1>2, Zenon
    <2>2. lock' = {u \in Thread : at'[u] # "idle"}
      BY <1>1, <1>2, Zenon
    <2>3. applied' \in 0 .. Len(file')
      BY <1>1
    <2>4. QED
      BY <1>1, <2>1, <2>2, <2>3, Zenon DEF IInv, TypeOK
  <1>4. \A u \in Thread : InStep(u)'
    <2>1. ASSUME NEW u \in Thread, u # t PROVE at'[u] = "idle"
      BY <1>1, <1>2, <2>1, Zenon
    <2>2. QED
      BY <2>1, Zenon DEF InStep
  <1>5. InPhase'
    <2>1. \A i \in missed : i \in 1 .. applied /\ Agree(i)
      BY Zenon DEF IInv, TypeOK, InPhase
    <2>2. \A i \in missed' : Agree(i)'
      BY <2>1, Zenon
    <2>3. /\ \A i \in 1 .. applied' : file'[i] \in Mutation
          /\ Len(file') <= applied' + 1 /\ lock' # {} /\ phase' = "up"
      BY <1>1 DEF IInv, InPhase
    <2>4. QED
      BY <2>2, <2>3, Zenon DEF InPhase
  <1>6. AckedInPlace'
    <2>1. ASSUME NEW a \in acked PROVE a[1] \in 1 .. applied /\ Agree(a[1]) /\ file[a[1]] = a[2]
      BY <1>1, <2>1 DEF IInv, AckedInPlace, Agree
    <2>2. ASSUME NEW a \in acked
          PROVE  /\ a[1] \in 1 .. applied /\ a[1] <= applied /\ a[1] \notin missed
                 /\ Agree(a[1])' /\ file'[a[1]] = a[2]
      <3>1. a[1] <= applied /\ a[1] \notin missed
        BY <1>1, <2>2, Zenon DEF IInv, AckedInPlace
      <3>2. QED
        BY <2>1, <2>2, <3>1, Zenon
    <2>3. QED
      BY <2>2, Zenon DEF AckedInPlace
  <1>7. QED
    BY <1>3, <1>4, <1>5, <1>6, Zenon DEF IInv

\* A step that ends a request without having applied it: fd_ is closed, unless
\* nothing has been written.
LEMMA FailStep ==
    ASSUME IInv, NEW t \in Thread, AppendFail(t) \/ AppendThrows(t)
    PROVE  IInv'
  <1>1. /\ at \in [Thread -> {"idle", "write", "writeMore", "sync", "apply"}]
        /\ request \in [Thread -> Mutation \cup {NoRequest}]
        /\ applied \in Nat /\ lock = {t} /\ phase = "up"
        /\ lock = {u \in Thread : at[u] # "idle"}
    BY LenProperties DEF IInv, TypeOK, AppendFail, AppendThrows
  <1>2. /\ at' = [at EXCEPT ![t] = "idle"] /\ request' = [request EXCEPT ![t] = NoRequest]
        /\ lock' = {} /\ fd' \in BOOLEAN /\ (fd' => Len(file) = applied)
        /\ UNCHANGED <<file, disk, linked, phase, store, applied, missed, acked>>
    BY <1>1, Zenon DEF AppendFail, AppendThrows, EndRequest, Goto, IInv, TypeOK, InStep
  <1>3. \A u \in Thread : at'[u] = "idle"
    BY <1>1, <1>2, Zenon
  <1>4. TypeOK'
    <2>1. at' \in [Thread -> {"idle", "write", "writeMore", "sync", "apply"}]
      BY <1>1, <1>2, Zenon
    <2>2. request' \in [Thread -> Mutation \cup {NoRequest}]
      BY <1>1, <1>2, Zenon
    <2>3. lock' = {u \in Thread : at'[u] # "idle"}
      BY <1>2, <1>3, Zenon
    <2>4. QED
      BY <1>2, <2>1, <2>2, <2>3, Zenon DEF IInv, TypeOK
  <1>5. QED
    BY <1>2, <1>3, <1>4, Zenon DEF IInv, TornLast, InStep, InPhase, AckedInPlace, Agree

\* A handler takes the mutex: the log is open and has nothing undecided.
LEMMA BeginStep == ASSUME IInv, NEW t \in Thread, NEW m \in Mutation, Begin(t, m) PROVE IInv'
  <1>1. /\ at \in [Thread -> {"idle", "write", "writeMore", "sync", "apply"}]
        /\ request \in [Thread -> Mutation \cup {NoRequest}]
        /\ lock = {} /\ phase = "up" /\ fd
        /\ lock = {u \in Thread : at[u] # "idle"}
    BY Zenon DEF IInv, TypeOK, Begin
  <1>2. /\ at' = [at EXCEPT ![t] = "write"] /\ request' = [request EXCEPT ![t] = m]
        /\ lock' = {t}
        /\ UNCHANGED <<file, disk, linked, fd, phase, store, applied, missed, acked>>
    BY Zenon DEF Begin, Goto
  <1>3. \A u \in Thread : at'[u] = IF u = t THEN "write" ELSE "idle"
    BY <1>1, <1>2, Zenon
  <1>4. TypeOK'
    <2>1. at' \in [Thread -> {"idle", "write", "writeMore", "sync", "apply"}]
      BY <1>1, <1>2, Zenon
    <2>2. request' \in [Thread -> Mutation \cup {NoRequest}] /\ request'[t] = m
      BY <1>1, <1>2, Zenon
    <2>3. lock' = {u \in Thread : at'[u] # "idle"}
      BY <1>2, <1>3
    <2>4. QED
      BY <1>1, <1>2, <2>1, <2>2, <2>3, Zenon DEF IInv, TypeOK
  <1>5. Len(file) = applied
    BY <1>1, Zenon DEF IInv, InPhase
  <1>6. InPhase' /\ \A u \in Thread : InStep(u)'
    BY <1>1, <1>2, <1>3, <1>5, Zenon DEF IInv, InStep, InPhase, Agree
  <1>7. AckedInPlace' /\ TornLast(file)' /\ TornLast(disk)' /\ (Len(disk') > 0 => linked')
    BY <1>2, Zenon DEF IInv, TornLast, AckedInPlace, Agree
  <1>8. QED
    BY <1>4, <1>6, <1>7, Zenon DEF IInv

\* The part of a frame that write() has put behind the last record is torn.
LEMMA WritePartStep == ASSUME IInv, NEW t \in Thread, WritePart(t) PROVE IInv'
  <1>1. /\ file \in Seq(Entry) /\ disk \in Seq(Entry) /\ Len(file) = applied /\ applied \in Nat
        /\ at \in [Thread -> {"idle", "write", "writeMore", "sync", "apply"}]
        /\ \A i \in 1 .. applied : file[i] \in Mutation
        /\ Len(disk) \in Nat /\ linked \in BOOLEAN
    BY LenProperties DEF IInv, TypeOK, InStep, InPhase, WritePart
  <1>2. PICK torn \in Torn : file' = Append(file, torn)
    BY Zenon DEF WritePart
  <1>3. /\ file' \in Seq(Entry) /\ Len(file') = applied + 1 /\ file'[applied + 1] = torn
        /\ \A i \in 1 .. applied : file'[i] = file[i]
    BY <1>1, <1>2, Kinds, AppendProperties
  <1>4. TornLast(file)'
    BY <1>1, <1>3, Kinds DEF TornLast
  <1>5. /\ UNCHANGED <<disk, linked, fd, phase, store, applied, missed, lock, request, acked>>
        /\ Goto(t, "writeMore") /\ at[t] = "write" /\ at'[t] = "writeMore"
    BY <1>1, Zenon DEF WritePart, Goto
  <1>6. InStep(t)'
    BY <1>2, <1>3, <1>5, Zenon DEF InStep
  <1>7. \A n \in 1 .. applied : Agree(n) => Agree(n)'
    BY <1>1, <1>3, <1>5 DEF Agree
  <1>8. TornLast(disk)' /\ (Len(disk') > 0 => linked')
    BY <1>5, Zenon DEF IInv, TornLast
  <1>9. QED
    BY <1>1, <1>3, <1>4, <1>5, <1>6, <1>7, <1>8, WriterStep, Zenon

\* The whole frame is the one entry behind the applied ones.
LEMMA WriteAllStep == ASSUME IInv, NEW t \in Thread, WriteAll(t) PROVE IInv'
  <1>1. /\ file \in Seq(Entry) /\ disk \in Seq(Entry) /\ applied \in Nat
        /\ at \in [Thread -> {"idle", "write", "writeMore", "sync", "apply"}]
        /\ \A i \in 1 .. applied : file[i] \in Mutation
        /\ Len(disk) \in Nat /\ linked \in BOOLEAN
        /\ request[t] \in Mutation /\ request[t] \in Entry
    BY LenProperties, Kinds DEF IInv, TypeOK, InPhase, WriteAll
  <1>2. /\ file' \in Seq(Entry) /\ Len(file') = applied + 1 /\ file'[applied + 1] = request[t]
        /\ \A i \in 1 .. applied : file'[i] = file[i]
    <2>1. CASE at[t] = "write" /\ file' = Append(file, request[t])
      <3>1. Len(file) = applied
        BY <2>1, Zenon DEF IInv, InStep
      <3>2. QED
        BY <1>1, <2>1, <3>1, AppendProperties
    <2>2. CASE at[t] = "writeMore" /\ file' = [file EXCEPT ![Len(file)] = request[t]]
      <3>1. Len(file) = applied + 1 /\ Len(file) \in 1 .. Len(file)
        BY <1>1, <2>2 DEF IInv, InStep
      <3>2. QED
        BY <1>1, <2>2, <3>1, ExceptSeq
    <2>3. QED
      BY <2>1, <2>2, Zenon DEF WriteAll
  <1>3. TornLast(file)'
    BY <1>1, <1>2, Kinds, SMT, SMTT(60) DEF TornLast
  <1>4. /\ UNCHANGED <<disk, linked, fd, phase, store, applied, missed, lock, request, acked>>
        /\ Goto(t, "sync") /\ at[t] # "idle" /\ at'[t] = "sync"
    BY <1>1, Zenon DEF WriteAll, Goto
  <1>5. InStep(t)'
    BY <1>2, <1>4, Zenon DEF InStep
  <1>6. \A n \in 1 .. applied : Agree(n) => Agree(n)'
    BY <1>1, <1>2, <1>4 DEF Agree
  <1>7. TornLast(disk)' /\ (Len(disk') > 0 => linked')
    BY <1>4, Zenon DEF IInv, TornLast
  <1>8. QED
    BY <1>1, <1>2, <1>3, <1>4, <1>5, <1>6, <1>7, WriterStep, Zenon

\* fsync: stable storage is the file.
LEMMA SyncStep == ASSUME FsyncLinks, IInv, NEW t \in Thread, Sync(t) PROVE IInv'
  <1>1. /\ file \in Seq(Entry) /\ Len(file) = applied + 1 /\ applied \in Nat
        /\ at \in [Thread -> {"idle", "write", "writeMore", "sync", "apply"}]
        /\ file[Len(file)] = request[t]
    BY LenProperties DEF IInv, TypeOK, InStep, Sync
  <1>2. /\ UNCHANGED <<file, fd, phase, store, applied, missed, lock, request, acked>>
        /\ Goto(t, "apply") /\ at[t] # "idle" /\ at'[t] = "apply"
        /\ disk' = file /\ linked' = TRUE
    BY <1>1, Zenon DEF Sync, Goto, Fsync
  <1>3. TornLast(file)' /\ TornLast(disk)'
    BY <1>2, Zenon DEF IInv, TornLast
  <1>4. InStep(t)'
    BY <1>1, <1>2, Zenon DEF InStep
  <1>5. \A n \in 1 .. applied : Agree(n) => Agree(n)'
    BY <1>1, <1>2, Zenon DEF Agree
  <1>6. QED
    BY <1>1, <1>2, <1>3, <1>4, <1>5, WriterStep, Zenon

\* The end of a mutation, applied and answered or cut short by an exception: its
\* record is the next to apply and is on stable storage.
LEMMA ApplyStep ==
    ASSUME IInv, NEW t \in Thread, Apply(t) \/ ApplyThrows(t)
    PROVE  IInv'
  <1>1. /\ at \in [Thread -> {"idle", "write", "writeMore", "sync", "apply"}]
        /\ request \in [Thread -> Mutation \cup {NoRequest}]
        /\ applied \in Nat /\ lock = {t} /\ phase = "up" /\ request[t] \in Mutation
        /\ lock = {u \in Thread : at[u] # "idle"}
        /\ Len(file) = applied + 1 /\ file[Len(file)] = request[t] /\ disk = file
        /\ store \in [Key -> Value \cup {Absent}]
        /\ acked \subseteq (Nat \ {0}) \X Mutation /\ missed \subseteq 1 .. applied
    BY LenProperties DEF IInv, TypeOK, InStep, Apply, ApplyThrows
  <1>2. /\ at' = [at EXCEPT ![t] = "idle"] /\ request' = [request EXCEPT ![t] = NoRequest]
        /\ lock' = {} /\ applied' = applied + 1
        /\ store' \in {store, [store EXCEPT ![request[t].key] = request[t].value]}
        /\ \/ acked' = acked \cup {<<Len(file), request[t]>>} /\ missed' = missed
           \/ acked' = acked /\ missed' = missed \cup {Len(file)}
        /\ UNCHANGED <<file, disk, linked, fd, phase>>
    BY <1>1, Zenon DEF Apply, ApplyThrows, EndRequest, Goto
  <1>3. \A u \in Thread : at'[u] = "idle"
    BY <1>1, <1>2, Zenon
  <1>4. TypeOK'
    <2>1. at' \in [Thread -> {"idle", "write", "writeMore", "sync", "apply"}]
      BY <1>1, <1>2, Zenon
    <2>2. request' \in [Thread -> Mutation \cup {NoRequest}]
      BY <1>1, <1>2, Zenon
    <2>3. lock' = {u \in Thread : at'[u] # "idle"}
      BY <1>2, <1>3, Zenon
    <2>4. store' \in [Key -> Value \cup {Absent}]
      BY <1>1, <1>2, Kinds, Zenon
    <2>5. /\ acked' \subseteq (Nat \ {0}) \X Mutation /\ applied' \in 0 .. Len(file')
          /\ missed' \subseteq 1 .. applied'
      <3>1. Len(file) \in Nat \ {0} /\ Len(file) \in 1 .. (applied + 1)
        BY <1>1
      <3>2. <<Len(file), request[t]>> \in (Nat \ {0}) \X Mutation
        BY <1>1, <3>1, Zenon
      <3>3. acked' \subseteq (Nat \ {0}) \X Mutation
        BY <1>1, <1>2, <3>2, Zenon
      <3>4. \A i \in missed : i \in 1 .. (applied + 1)
        BY <1>1
      <3>5. missed' \subseteq 1 .. applied'
        BY <1>2, <3>1, <3>4, Zenon
      <3>6. applied' \in 0 .. Len(file')
        BY <1>1, <1>2
      <3>7. QED
        BY <3>3, <3>5, <3>6, Zenon
    <2>6. QED
      BY <1>2, <2>1, <2>2, <2>3, <2>4, <2>5, Zenon DEF IInv, TypeOK
  <1>5. (\A n : Agree(n)' <=> Agree(n)) /\ Agree(Len(file))
    <2>1. \A n : Agree(n)' <=> Agree(n)
      BY <1>2, Zenon DEF Agree
    <2>2. Agree(Len(file))
      BY <1>1 DEF Agree
    <2>3. QED
      BY <2>1, <2>2, Zenon
  <1>6. InPhase'
    <2>1. \A i \in missed' : Agree(i)'
      BY <1>2, <1>5, Zenon DEF IInv, InPhase
    <2>2. /\ \A i \in 1 .. applied' : file'[i] \in Mutation
          /\ Len(file') <= applied' + 1 /\ Len(file') = applied' /\ phase' = "up"
      BY <1>1, <1>2 DEF IInv, InPhase
    <2>3. QED
      BY <2>1, <2>2, Zenon DEF InPhase
  <1>7. AckedInPlace'
    <2>1. ASSUME NEW a \in acked
          PROVE  /\ Agree(a[1]) /\ file[a[1]] = a[2] /\ a[1] \in Nat /\ a[1] <= applied
                 /\ a[1] \notin missed
      BY <1>1, <2>1, Zenon DEF IInv, AckedInPlace
    <2>2. \A a \in acked : a[1] # Len(file) /\ a[1] <= applied + 1
      BY <1>1, <2>1
    <2>3. Len(file) \notin missed /\ Len(file) <= applied + 1
      BY <1>1
    <2>4. ASSUME NEW a \in acked'
          PROVE  /\ Agree(a[1]) /\ file[a[1]] = a[2] /\ a[1] <= applied + 1
                 /\ a[1] \notin missed'
      <3>1. CASE a \in acked
        BY <1>2, <2>1, <2>2, <3>1, Zenon
      <3>2. CASE a = <<Len(file), request[t]>> /\ missed' = missed
        BY <1>1, <1>5, <2>3, <3>2
      <3>3. QED
        BY <1>2, <2>4, <3>1, <3>2, Zenon
    <2>5. QED
      BY <1>2, <1>5, <2>4, Zenon DEF AckedInPlace
  <1>8. QED
    BY <1>2, <1>3, <1>4, <1>6, <1>7, Zenon DEF IInv, TornLast, InStep

\* After a crash the memory is that of a process that has not started.
LEMMA MemoryLost ==
    ASSUME LoseMemory, file' \in Seq(Entry), disk' \in Seq(Entry), linked' \in BOOLEAN,
           acked' \subseteq (Nat \ {0}) \X Mutation
    PROVE  TypeOK' /\ InPhase' /\ (\A t \in Thread : InStep(t)') /\ phase' = "down" /\ missed' = {}
  <1>1. /\ phase' = "down" /\ fd' = FALSE /\ store' = Empty /\ applied' = 0 /\ missed' = {} /\ lock' = {}
        /\ at' = [t \in Thread |-> "idle"] /\ request' = [t \in Thread |-> NoRequest]
    BY Zenon DEF LoseMemory
  <1>2. /\ store' \in [Key -> Value \cup {Absent}]
        /\ at' \in [Thread -> {"idle"}] /\ request' \in [Thread -> {NoRequest}]
        /\ lock' = {t \in Thread : at'[t] # "idle"}
    BY <1>1, Zenon DEF Empty
  <1>3. applied' \in 0 .. Len(file')
    BY <1>1, LenProperties
  <1>4. TypeOK'
    BY <1>1, <1>2, <1>3, Zenon DEF TypeOK
  <1>5. InPhase'
    BY <1>1 DEF InPhase
  <1>6. QED
    BY <1>1, <1>2, <1>4, <1>5, Zenon DEF InStep

\* A process crash leaves both the file and stable storage alone.
LEMMA ProcessCrashStep == ASSUME IInv, ProcessCrash PROVE IInv'
  <1>1. UNCHANGED <<file, disk, linked, acked>> /\ LoseMemory
    BY Zenon DEF ProcessCrash
  <1>2. TypeOK' /\ InPhase' /\ (\A t \in Thread : InStep(t)') /\ phase' = "down" /\ missed' = {}
    BY <1>1, MemoryLost, Zenon DEF IInv, TypeOK
  <1>3. QED
    BY <1>1, <1>2, Zenon DEF IInv, TornLast, AckedInPlace, Agree

\* A power loss keeps the entries on which the file and stable storage agree.
LEMMA PowerLossKeeps ==
    ASSUME IInv, PowerLoss
    PROVE  /\ file' \in Seq(Entry) /\ TornLast(file)' /\ disk' = file'
           /\ linked' \in BOOLEAN /\ (Len(disk') > 0 => linked')
           /\ \A n : Agree(n) => Agree(n)' /\ \A i \in 1 .. n : file'[i] = file[i]
  <1>1. file \in Seq(Entry) /\ disk \in Seq(Entry) /\ Len(file) \in Nat /\ Len(disk) \in Nat
    BY LenProperties, Zenon DEF IInv, TypeOK
  <1>2. disk' = file'
    BY Zenon DEF PowerLoss
  <1>3. CASE file' \in Survivors /\ linked' = TRUE
    <2>1. /\ file' \in Seq(Entry) /\ TornLast(file')
          /\ \A n : Agree(n) => n \in 1 .. Len(file') /\ \A i \in 1 .. n : file'[i] = file[i]
      BY <1>1, <1>3, SurvivorKeeps, Zenon DEF IInv
    <2>2. QED
      BY <1>2, <1>3, <2>1, Zenon DEF Agree, TornLast
  <1>4. CASE ~linked /\ file' = <<>> /\ linked' = FALSE
    <2>1. file' \in Seq(Entry) /\ Len(file') = 0
      BY <1>4, EmptySeq, Zenon
    <2>2. \A n : ~Agree(n)
      BY <1>1, <1>4 DEF IInv, Agree
    <2>3. TornLast(file)'
      BY <2>1 DEF TornLast
    <2>4. ~(Len(disk') > 0)
      BY <1>2, <2>1
    <2>5. linked' \in BOOLEAN
      BY <1>4, Zenon
    <2>6. \A n : Agree(n) => Agree(n)' /\ \A i \in 1 .. n : file'[i] = file[i]
      BY <2>2, Zenon
    <2>7. QED
      BY <1>2, <2>1, <2>3, <2>4, <2>5, <2>6, Zenon
  <1>5. QED
    BY <1>3, <1>4, Zenon DEF PowerLoss

\* A power loss takes away nothing that was answered: answered records are in
\* the part that the file and stable storage agree on.
LEMMA PowerLossStep == ASSUME IInv, PowerLoss PROVE IInv'
  <1>1. /\ file' \in Seq(Entry) /\ TornLast(file)' /\ disk' = file'
        /\ linked' \in BOOLEAN /\ (Len(disk') > 0 => linked')
        /\ \A n : Agree(n) => Agree(n)' /\ \A i \in 1 .. n : file'[i] = file[i]
    BY PowerLossKeeps, Zenon
  <1>2. acked' = acked /\ LoseMemory
    BY Zenon DEF PowerLoss
  <1>3. TypeOK' /\ InPhase' /\ (\A t \in Thread : InStep(t)') /\ phase' = "down" /\ missed' = {}
    BY <1>1, <1>2, MemoryLost, Zenon DEF IInv, TypeOK
  <1>4. AckedInPlace'
    <2>1. ASSUME NEW a \in acked PROVE Agree(a[1]) /\ file[a[1]] = a[2] /\ a[1] \in 1 .. a[1]
      BY <2>1 DEF IInv, TypeOK, AckedInPlace
    <2>2. QED
      BY <1>1, <1>2, <1>3, <2>1, Zenon DEF AckedInPlace
  <1>5. QED
    BY <1>1, <1>3, <1>4, Zenon DEF IInv, TornLast

\* Nobody executes a request before the server is up.
LEMMA NobodyYet ==
    ASSUME TypeOK, phase # "up"
    PROVE  lock = {} /\ \A t \in Thread : at[t] = "idle"
  BY Zenon DEF TypeOK

\* Wal::Wal opens the log and changes no entry.
LEMMA StartStep == ASSUME IInv, Start PROVE IInv'
  <1>1. /\ UNCHANGED <<file, disk, linked, store, applied, missed, lock, at, request, acked>>
        /\ phase # "up" /\ phase' = "recover" /\ fd' = TRUE
    BY Zenon DEF Start
  <1>2. lock = {}
    BY <1>1, NobodyYet, Zenon DEF IInv
  <1>3. TypeOK'
    BY <1>1, <1>2, Zenon DEF IInv, TypeOK
  <1>4. QED
    BY <1>1, <1>3, Zenon DEF IInv, TornLast, InStep, InPhase, AckedInPlace, Agree

\* recover applies the next complete record.
LEMMA RecoverRecordStep == ASSUME IInv, RecoverRecord PROVE IInv'
  <1>1. /\ UNCHANGED <<file, disk, linked, fd, phase, missed, lock, at, request, acked>>
        /\ phase = "recover" /\ applied < Len(file) /\ applied' = applied + 1
        /\ store' = [store EXCEPT ![file[applied + 1].key] = file[applied + 1].value]
    BY Zenon DEF RecoverRecord
  <1>2. /\ Len(file) \in Nat /\ applied \in Nat /\ applied + 1 \in 1 .. Len(file)
        /\ store \in [Key -> Value \cup {Absent}]
    BY <1>1, LenProperties, SMT, SMTT(60) DEF IInv, TypeOK
  <1>3. file[applied + 1] \in Mutation
    BY <1>2, ElementOfSeq, Kinds, Zenon DEF IInv, TypeOK, RecoverRecord
  <1>4. TypeOK'
    <2>1. store' \in [Key -> Value \cup {Absent}]
      BY <1>1, <1>2, <1>3, Kinds, Zenon
    <2>2. applied' \in 0 .. Len(file') /\ missed' \subseteq 1 .. applied'
      <3>1. missed' = {}
        BY <1>1, Zenon DEF IInv, InPhase
      <3>2. QED
        BY <1>1, <1>2, <3>1
    <2>3. QED
      BY <1>1, <2>1, <2>2, Zenon DEF IInv, TypeOK
  <1>5. lock = {} /\ \A t \in Thread : at[t] = "idle"
    BY <1>1, NobodyYet, Zenon DEF IInv
  <1>6. InPhase'
    <2>1. missed' = {} /\ phase' = "recover"
      BY <1>1, Zenon DEF IInv, InPhase
    <2>2. \A i \in 1 .. applied' : file'[i] \in Mutation
      BY <1>1, <1>2, <1>3, SMT, SMTT(60) DEF IInv, InPhase
    <2>3. QED
      BY <2>1, <2>2, Zenon DEF InPhase
  <1>7. QED
    BY <1>1, <1>4, <1>5, <1>6, Zenon DEF IInv, TornLast, InStep, AckedInPlace, Agree

\* recover at the end of the file has applied all of it, the answered records
\* included.
LEMMA RecoverEndStep == ASSUME IInv, RecoverEnd PROVE IInv'
  <1>1. /\ UNCHANGED <<file, disk, linked, fd, store, applied, missed, lock, at, request, acked>>
        /\ phase = "recover" /\ phase' = "up" /\ applied = Len(file)
    BY Zenon DEF RecoverEnd
  <1>2. Len(file) \in Nat /\ lock = {} /\ \A t \in Thread : at[t] = "idle"
    BY <1>1, NobodyYet, LenProperties, Zenon DEF IInv, TypeOK
  <1>3. TypeOK'
    BY <1>1, <1>2, Zenon DEF IInv, TypeOK
  <1>4. AckedInPlace'
    BY <1>1, <1>2, SMT, SMTT(60) DEF IInv, AckedInPlace, Agree
  <1>5. QED
    BY <1>1, <1>2, <1>3, <1>4 DEF IInv, TornLast, InStep, InPhase

\* The torn entry that recovery cuts off is the last one, and no answered record.
LEMMA RecoverTornStep == ASSUME IInv, RecoverTorn PROVE IInv'
  <1>1. /\ UNCHANGED <<disk, linked, fd, store, applied, missed, lock, at, request, acked>>
        /\ phase = "recover" /\ phase' = "repair" /\ file' = SubSeq(file, 1, applied)
        /\ applied < Len(file)
    BY Zenon DEF RecoverTorn
  <1>2. /\ file \in Seq(Entry) /\ Len(file) \in Nat /\ Len(disk) \in Nat /\ applied \in 0 .. Len(file)
        /\ applied \in Nat /\ applied + 1 \in 1 .. Len(file)
    BY <1>1, LenProperties DEF IInv, TypeOK
  <1>3. /\ file' \in Seq(Entry) /\ Len(file') = applied
        /\ \A i \in 1 .. applied : file'[i] = file[i]
    BY <1>1, <1>2, Prefix, Zenon
  <1>4. file[applied + 1] \in Torn /\ Len(file) = applied + 1
    <2>1. file[applied + 1] \in Torn
      BY <1>2, ElementOfSeq, Kinds, Zenon DEF RecoverTorn
    <2>2. QED
      BY <1>2, <2>1, Zenon DEF IInv, TornLast
  <1>5. lock = {} /\ \A t \in Thread : at[t] = "idle"
    BY <1>1, NobodyYet, Zenon DEF IInv
  <1>6. TypeOK'
    <2>1. applied' \in 0 .. Len(file')
      BY <1>1, <1>2, <1>3
    <2>2. QED
      BY <1>1, <1>3, <1>5, <2>1, Zenon DEF IInv, TypeOK
  <1>7. InPhase' /\ TornLast(file)'
    BY <1>1, <1>2, <1>3, Kinds, Zenon DEF IInv, InPhase, TornLast
  <1>8. AckedInPlace'
    <2>1. ASSUME NEW a \in acked
          PROVE  /\ Agree(a[1]) /\ file[a[1]] = a[2] /\ a[1] \in 1 .. applied
                 /\ a[1] <= applied /\ a[1] \notin missed
      <3>1. Agree(a[1]) /\ file[a[1]] = a[2] /\ a[2] \in Mutation /\ a[1] \in 1 .. (applied + 1)
        BY <1>4, <2>1, Zenon DEF IInv, TypeOK, AckedInPlace, Agree
      <3>2. a[1] # applied + 1
        BY <1>4, <3>1, Kinds, Zenon
      <3>3. a[1] \in 1 .. applied /\ a[1] <= applied
        BY <1>2, <3>1, <3>2
      <3>4. a[1] \notin missed
        BY <2>1, Zenon DEF IInv, AckedInPlace
      <3>5. QED
        BY <3>1, <3>3, <3>4, Zenon
    <2>2. ASSUME NEW n \in 1 .. applied, Agree(n) PROVE Agree(n)'
      BY <1>1, <1>2, <1>3, <2>2, SMT, SMTT(60) DEF Agree
    <2>3. QED
      BY <1>1, <1>3, <2>1, <2>2, Zenon DEF AckedInPlace
  <1>9. QED
    BY <1>1, <1>5, <1>6, <1>7, <1>8, Zenon DEF IInv, TornLast, InStep

\* The fsync after the repair makes the shortened file durable.
LEMMA RepairSyncStep == ASSUME FsyncLinks, IInv, RepairSync PROVE IInv'
  <1>1. /\ UNCHANGED <<file, fd, store, applied, missed, lock, at, request, acked>>
        /\ phase = "repair" /\ phase' = "up" /\ disk' = file /\ linked' = TRUE
    BY Zenon DEF RepairSync, Fsync
  <1>2. /\ lock = {} /\ (\A t \in Thread : at[t] = "idle")
        /\ Len(file) = applied /\ Len(file) \in Nat
    BY <1>1, NobodyYet, LenProperties, Zenon DEF IInv, TypeOK, InPhase
  <1>3. TypeOK'
    BY <1>1, <1>2, Zenon DEF IInv, TypeOK
  <1>4. AckedInPlace'
    BY <1>1, <1>2, Zenon DEF IInv, AckedInPlace, Agree
  <1>5. TornLast(file)' /\ TornLast(disk)' /\ \A t \in Thread : InStep(t)'
    BY <1>1, <1>2, Zenon DEF IInv, TornLast, InStep
  <1>6. InPhase'
    BY <1>1, <1>2 DEF IInv, InPhase
  <1>7. QED
    BY <1>1, <1>3, <1>4, <1>5, <1>6, Zenon DEF IInv

\* The invariant holds after every step of the server, of its handlers and of the
\* file system.
LEMMA NextIInv == ASSUME FsyncLinks PROVE IInv /\ [Next]_vars => IInv'
  <1> SUFFICES ASSUME IInv, [Next]_vars PROVE IInv'
    BY SMT, SMTT(60)
  <1>1. CASE UNCHANGED vars
    BY <1>1, ZenonT(40) DEF vars, IInv, TypeOK, TornLast, InStep, InPhase, AckedInPlace, Agree
  <1>2. QED
    BY Zenon, <1>1, BeginStep, WritePartStep, WriteAllStep, FailStep, SyncStep, ApplyStep,
       ProcessCrashStep, PowerLossStep, StartStep, RecoverRecordStep, RecoverEndStep,
       RecoverTornStep, RepairSyncStep
    DEF Next

\* Types, for a log of any length: one handler at a time is inside a mutation,
\* and memory has never taken in more entries than the file has.
THEOREM StoreTypeCorrect == ASSUME FsyncLinks PROVE Spec => []TypeOK
  <1>1. IInv /\ [Next]_vars => IInv'
    BY NextIInv, Zenon
  <1>2. IInv => TypeOK
    BY Zenon DEF IInv
  <1>3. QED
    BY <1>1, <1>2, InitIInv, PTL DEF Spec

\* What execute has answered without an error survives any number of process
\* crashes, power losses, failed writes and recoveries.
THEOREM AckedDurableCorrect == ASSUME FsyncLinks PROVE Spec => []AckedDurable
  <1>1. IInv /\ [Next]_vars => IInv'
    BY NextIInv, Zenon
  <1>2. IInv => AckedDurable
    <2> SUFFICES ASSUME IInv PROVE AckedDurable
      BY Zenon
    <2>1. DOMAIN file = 1 .. Len(file) /\ DOMAIN disk = 1 .. Len(disk)
      BY LenProperties, Zenon DEF IInv, TypeOK
    <2>2. ASSUME NEW a \in acked
          PROVE  /\ Agree(a[1]) /\ file[a[1]] = a[2] /\ a[1] \in 1 .. a[1]
                 /\ phase = "up" => a[1] \in InMemory
      BY <2>2, LenProperties DEF IInv, TypeOK, AckedInPlace, InMemory
    <2>3. QED
      BY <2>1, <2>2, Zenon DEF AckedDurable, Agree
  <1>3. QED
    BY <1>1, <1>2, InitIInv, PTL DEF Spec

\* No record is ever appended behind a torn one: a tail torn by a failed write or
\* a crash is the last thing in the log until recovery has cut it off.
THEOREM TornTailCorrect == ASSUME FsyncLinks PROVE Spec => []TornTailIsLast
  <1>1. IInv /\ [Next]_vars => IInv'
    BY NextIInv, Zenon
  <1>2. ASSUME IInv PROVE TornTailIsLast
    <2>1. DOMAIN file = 1 .. Len(file)
      BY <1>2, LenProperties, Zenon DEF IInv, TypeOK
    <2>2. QED
      BY <1>2, <2>1, Zenon DEF IInv, TornTailIsLast, TornLast
  <1>3. QED
    BY <1>1, <1>2, InitIInv, PTL DEF Spec

\* Whatever throws, fails or crashes: a record that a server which is up does not
\* have in memory was never answered, and it is either on stable storage for the
\* next start or the last of the log, with its handler at work or the log closed.
THEOREM UnappliedCorrect == ASSUME FsyncLinks PROVE Spec => []UnappliedUnanswered
  <1>1. IInv /\ [Next]_vars => IInv'
    BY NextIInv, Zenon
  <1>2. ASSUME IInv, phase = "up", NEW i \in DOMAIN file \ InMemory
        PROVE  /\ \A a \in acked : a[1] # i
               /\ \/ i \in missed /\ i \in DOMAIN disk /\ SubSeq(disk, 1, i) = SubSeq(file, 1, i)
                  \/ i = Len(file) /\ (lock # {} \/ ~fd)
    <2>1. /\ file \in Seq(Entry) /\ disk \in Seq(Entry) /\ Len(file) \in Nat /\ Len(disk) \in Nat
          /\ DOMAIN file = 1 .. Len(file) /\ DOMAIN disk = 1 .. Len(disk)
          /\ applied \in Nat /\ applied <= Len(file)
      BY <1>2, LenProperties DEF IInv, TypeOK
    <2>2. ASSUME NEW a \in acked PROVE a[1] \in InMemory
      <3>1. a[1] \in Nat \ {0} /\ a[1] <= applied /\ a[1] \notin missed
        BY <1>2, <2>2, Zenon DEF IInv, TypeOK, AckedInPlace
      <3>2. QED
        BY <2>1, <3>1 DEF InMemory
    <2>3. CASE i \in missed
      <3>1. Agree(i)
        BY <1>2, <2>3, Zenon DEF IInv, InPhase
      <3>2. i \in 0 .. Len(disk) /\ i <= Len(file)
        BY <2>1, <3>1 DEF Agree
      <3>3. SubSeq(disk, 1, i) = SubSeq(file, 1, i) /\ i \in DOMAIN disk
        BY <2>1, <3>1, <3>2, SamePrefix, Zenon DEF Agree
      <3>4. QED
        BY <1>2, <2>2, <2>3, <3>3, Zenon
    <2>4. CASE i \notin missed
      <3>1. i \in 1 .. Len(file) /\ ~(i <= applied)
        BY <1>2, <2>1, <2>4 DEF InMemory
      <3>2. Len(file) <= applied + 1 /\ (fd /\ lock = {} => Len(file) = applied)
        BY <1>2, Zenon DEF IInv, InPhase
      <3>3. i = Len(file) /\ Len(file) # applied
        <4>1. \A n, a \in Nat : n <= a + 1 =>
                  \A m \in 1 .. n : ~(m <= a) => m = n /\ n # a
          OBVIOUS
        <4>2. QED
          BY <2>1, <3>1, <3>2, <4>1, Zenon
      <3>4. QED
        BY <1>2, <2>2, <3>2, <3>3, Zenon
    <2>5. QED
      BY <2>3, <2>4, Zenon
  <1>3. IInv => UnappliedUnanswered
    BY <1>2, Zenon DEF UnappliedUnanswered
  <1>4. QED
    BY <1>1, <1>3, InitIInv, PTL DEF Spec

-----------------------------------------------------------------------------

(* Memory is the log replayed *)

\* Only the entries at the given positions matter to the replay of a file.
LEMMA ReflectsSame ==
    ASSUME NEW s, NEW f, NEW g, NEW N, Reflects(s, f, N), \A i \in N : g[i] = f[i]
    PROVE  Reflects(s, g, N)
  BY SMT, SMTT(30) DEF Reflects

\* Applying a record behind the replayed ones gives the replay with that record.
LEMMA ReflectsNext ==
    ASSUME NEW s \in [Key -> Value \cup {Absent}], NEW f, NEW n \in Nat, NEW N \in SUBSET (1 .. n),
           Reflects(s, f, N), f[n + 1] \in Mutation
    PROVE  Reflects([s EXCEPT ![f[n + 1].key] = f[n + 1].value], f, N \cup {n + 1})
  <1> DEFINE key == f[n + 1].key
             new == [s EXCEPT ![key] = f[n + 1].value]
             M == N \cup {n + 1}
  <1>0. key \in Key /\ n + 1 \in M /\ \A i \in N : i \in M
    BY Kinds, Zenon
  <1>1. (\A j \in M : ~(j > n + 1)) /\ (\A i \in N : n + 1 > i)
    OBVIOUS
  <1>2. SUFFICES ASSUME NEW k \in Key
                 PROVE  \/ new[k] = Absent /\ \A i \in M : f[i].key # k
                        \/ \E i \in M :
                             /\ f[i].key = k /\ f[i].value = new[k]
                             /\ \A j \in M : j > i => f[j].key # k
    BY Zenon DEF Reflects
  <1>3. CASE k = key
    <2>1. new[k] = f[n + 1].value
      BY <1>0, <1>3, Zenon
    <2>2. QED
      BY <1>0, <1>1, <1>3, <2>1, Zenon
  <1>4. CASE k # key
    <2>1. new[k] = s[k]
      BY <1>0, <1>4, Zenon
    <2>2. CASE s[k] = Absent /\ \A i \in N : f[i].key # k
      BY <1>4, <2>1, <2>2, Zenon
    <2>3. ASSUME NEW i \in N, f[i].key = k, f[i].value = s[k],
                 \A j \in N : j > i => f[j].key # k
          PROVE  /\ i \in M /\ f[i].key = k /\ f[i].value = new[k]
                 /\ \A j \in M : j > i => f[j].key # k
      BY <1>0, <1>4, <2>1, <2>3, Zenon
    <2>4. QED
      BY <2>2, <2>3, Zenon DEF Reflects
  <1>5. QED
    BY <1>3, <1>4, Zenon

\* Every step keeps the store the replay of the entries it has taken in.
LEMMA NextReflects == IInv /\ StoreReflectsLog /\ [Next]_vars => StoreReflectsLog'
  <1> SUFFICES ASSUME IInv, StoreReflectsLog, [Next]_vars PROVE StoreReflectsLog'
    BY Zenon
  <1>0. /\ file \in Seq(Entry) /\ Len(file) \in Nat /\ applied \in Nat /\ applied \in 0 .. Len(file)
        /\ store \in [Key -> Value \cup {Absent}] /\ InMemory \in SUBSET (1 .. applied)
        /\ applied + 1 \notin missed
    BY LenProperties DEF IInv, TypeOK, InMemory
  <1>1. ASSUME UNCHANGED <<store, applied, missed>>, \A i \in 1 .. applied : file'[i] = file[i]
        PROVE  StoreReflectsLog'
    <2>1. InMemory' = InMemory /\ \A i \in InMemory : file'[i] = file[i]
      BY <1>0, <1>1, Zenon DEF InMemory
    <2>2. QED
      BY <1>1, <2>1, ReflectsSame, Zenon DEF StoreReflectsLog
  <1>2. ASSUME NEW t \in Thread, WritePart(t) PROVE StoreReflectsLog'
    <2>1. PICK torn \in Torn : file' = Append(file, torn)
      BY <1>2, Zenon DEF WritePart
    <2>2. \A i \in 1 .. applied : file'[i] = file[i]
      BY <1>0, <2>1, Kinds, AppendProperties
    <2>3. QED
      BY <1>1, <1>2, <2>2, Zenon DEF WritePart
  <1>3. ASSUME NEW t \in Thread, WriteAll(t) PROVE StoreReflectsLog'
    <2>1. request[t] \in Entry
      BY <1>3, Kinds, Zenon DEF WriteAll, IInv, TypeOK
    <2>2. CASE file' = Append(file, request[t])
      <3>1. \A i \in 1 .. applied : file'[i] = file[i]
        BY <1>0, <2>1, <2>2, AppendProperties, SMT, SMTT(30)
      <3>2. QED
        BY <1>1, <1>3, <3>1, Zenon DEF WriteAll
    <2>3. CASE at[t] = "writeMore" /\ file' = [file EXCEPT ![Len(file)] = request[t]]
      <3>1. Len(file) = applied + 1 /\ Len(file) \in 1 .. Len(file)
        BY <1>0, <2>3 DEF IInv, InStep
      <3>2. \A i \in 1 .. applied : file'[i] = file[i]
        BY <1>0, <2>1, <2>3, <3>1, ExceptSeq
      <3>3. QED
        BY <1>1, <1>3, <3>2, Zenon DEF WriteAll
    <2>4. QED
      BY <1>3, <2>2, <2>3, Zenon DEF WriteAll
  <1>4. ASSUME NEW t \in Thread, Apply(t) PROVE StoreReflectsLog'
    <2>1. /\ Len(file) = applied + 1 /\ file[applied + 1] = request[t] /\ request[t] \in Mutation
      BY <1>4, Zenon DEF IInv, TypeOK, InStep, Apply
    <2>2. InMemory' = InMemory \cup {applied + 1}
      BY <1>0, <1>4 DEF Apply, InMemory
    <2>3. QED
      BY <1>0, <1>4, <2>1, <2>2, ReflectsNext, Zenon DEF Apply, StoreReflectsLog
  <1>5. ASSUME RecoverRecord PROVE StoreReflectsLog'
    <2>1. file[applied + 1] \in Mutation
      BY <1>0, <1>5, ElementOfSeq, Kinds DEF RecoverRecord
    <2>2. InMemory' = InMemory \cup {applied + 1}
      BY <1>0, <1>5 DEF RecoverRecord, InMemory
    <2>3. QED
      BY <1>0, <1>5, <2>1, <2>2, ReflectsNext, Zenon DEF RecoverRecord, StoreReflectsLog
  <1>6. ASSUME RecoverTorn PROVE StoreReflectsLog'
    <2>1. \A i \in 1 .. applied : file'[i] = file[i]
      BY <1>0, <1>6, Prefix, Zenon DEF RecoverTorn
    <2>2. QED
      BY <1>1, <1>6, <2>1, ZenonT(60) DEF RecoverTorn
  <1>7. ASSUME LoseMemory PROVE StoreReflectsLog'
    BY <1>7 DEF LoseMemory, Empty, StoreReflectsLog, Reflects, InMemory
  <1>8. CASE UNCHANGED <<store, applied, missed, file>>
    BY <1>1, <1>8, Zenon
  <1>9. ASSUME NEW t \in Thread, ApplyThrows(t) PROVE StoreReflectsLog'
    <2>1. Len(file) = applied + 1
      BY <1>9, Zenon DEF InStep, IInv, ApplyThrows
    <2>2. InMemory' = InMemory
      BY <1>0, <1>9, <2>1 DEF ApplyThrows, InMemory
    <2>3. QED
      BY <1>9, <2>2, Zenon DEF ApplyThrows, StoreReflectsLog
  <1>10. QED
    BY <1>2, <1>3, <1>4, <1>5, <1>6, <1>7, <1>8, <1>9, Zenon
    DEF Next, vars, Begin, AppendThrows, AppendFail, EndRequest, Sync, ProcessCrash, PowerLoss, Start, RecoverEnd,
        RepairSync

\* Concurrent handlers, failures and recoveries in any order: the store is always
\* what replaying the log gives, without the records whose change of it threw.
THEOREM StoreReflectsCorrect == ASSUME FsyncLinks PROVE Spec => []StoreReflectsLog
  <1>1. IInv /\ [Next]_vars => IInv'
    BY NextIInv, Zenon
  <1>2. Init => StoreReflectsLog
    BY DEF Init, Empty, StoreReflectsLog, Reflects, InMemory
  <1>3. QED
    BY <1>1, <1>2, InitIInv, NextReflects, PTL DEF Spec

-----------------------------------------------------------------------------
(* What is durable stays *)

\* No step takes away or changes a record on which the file and stable storage
\* agree.
LEMMA NextKeepsDurable == ASSUME FsyncLinks PROVE IInv /\ [Next]_vars => [KeepsDurable]_vars
  <1> SUFFICES ASSUME IInv, Next PROVE KeepsDurable
    BY Zenon DEF KeepsDurable
  <1>0. /\ file \in Seq(Entry) /\ disk \in Seq(Entry) /\ Len(file) \in Nat /\ Len(disk) \in Nat
        /\ applied \in Nat
    BY LenProperties DEF IInv, TypeOK
  <1>1. /\ DOMAIN file = 1 .. Len(file) /\ DOMAIN disk = 1 .. Len(disk)
        /\ DOMAIN file' = 1 .. Len(file') /\ DOMAIN disk' = 1 .. Len(disk')
        /\ Len(file') \in Nat /\ Len(disk') \in Nat
    <2>1. file' \in Seq(Entry) /\ disk' \in Seq(Entry)
      BY NextIInv, Zenon DEF IInv, TypeOK
    <2>2. QED
      BY <1>0, <2>1, LenProperties, Zenon
  <1> SUFFICES ASSUME NEW i \in 1 .. Len(file), i \in 1 .. Len(disk), file[i] \in Mutation, Agree(i)
               PROVE  /\ i \in 1 .. Len(file') /\ file'[i] = file[i]
                      /\ i \in 1 .. Len(disk') /\ disk'[i] = file[i]
    BY <1>0, <1>1, SamePrefix DEF KeepsDurable, Agree
  <1>2. disk[i] = file[i]
    BY <1>0 DEF Agree
  <1>3. CASE UNCHANGED <<file, disk>>
    BY <1>2, <1>3, Zenon
  <1>4. ASSUME NEW t \in Thread, WritePart(t)
        PROVE  i \in 1 .. Len(file') /\ file'[i] = file[i] /\ disk' = disk
    <2>1. PICK torn \in Torn : file' = Append(file, torn)
      BY <1>4, Zenon DEF WritePart
    <2>2. QED
      BY <1>0, <1>4, <2>1, Kinds, AppendProperties DEF WritePart
  <1>5. ASSUME NEW t \in Thread, WriteAll(t)
        PROVE  i \in 1 .. Len(file') /\ file'[i] = file[i] /\ disk' = disk
    <2>1. request[t] \in Entry /\ disk' = disk
      BY <1>5, Kinds, Zenon DEF WriteAll, IInv, TypeOK
    <2>2. CASE file' = Append(file, request[t])
      BY <1>0, <2>1, <2>2, AppendProperties
    <2>3. CASE at[t] = "writeMore" /\ file' = [file EXCEPT ![Len(file)] = request[t]]
      <3>1. i # Len(file)
        BY <2>3, Kinds, Zenon DEF IInv, InStep
      <3>2. i \in 1 .. (Len(file) - 1)
        BY <1>0, <3>1
      <3>3. QED
        BY <1>0, <2>1, <2>3, <3>2, LastReplaced
    <2>4. QED
      BY <1>5, <2>2, <2>3, Zenon DEF WriteAll
  <1>6. CASE Fsync /\ file' = file
    BY <1>6, Zenon DEF Fsync
  <1>7. CASE PowerLoss
    BY <1>0, <1>7, PowerLossKeeps, SMT, SMTT(30) DEF Agree
  <1>8. ASSUME RecoverTorn
        PROVE  i \in 1 .. Len(file') /\ file'[i] = file[i] /\ disk' = disk
    <2>1. /\ applied \in 0 .. Len(file) /\ applied + 1 \in 1 .. Len(file)
          /\ file' = SubSeq(file, 1, applied) /\ disk' = disk
      BY <1>0, <1>8 DEF RecoverTorn
    <2>2. file[applied + 1] \in Torn
      BY <1>0, <1>8, <2>1, ElementOfSeq, Kinds, Zenon DEF RecoverTorn
    <2>3. applied + 1 = Len(file) /\ i # applied + 1
      BY <2>1, <2>2, Kinds, Zenon DEF IInv, TornLast
    <2>4. i \in 1 .. applied
      BY <1>0, <2>3
    <2>5. QED
      BY <1>0, <2>1, <2>4, Prefix, Zenon
  <1>9. QED
    BY <1>2, <1>3, <1>4, <1>5, <1>6, <1>7, <1>8, Zenon
    DEF Next, Begin, AppendThrows, AppendFail, Sync, Apply, ApplyThrows, ProcessCrash, Start, RecoverRecord, RecoverEnd, RepairSync

\* A record on stable storage, answered or not, is never taken away or changed
\* by a crash, by the repair of a torn tail or by a later append.
THEOREM DurableRecordsStayCorrect == ASSUME FsyncLinks PROVE Spec => DurableRecordsStay
  <1>1. IInv /\ [Next]_vars => IInv'
    BY NextIInv, Zenon
  <1>2. IInv /\ [Next]_vars => [KeepsDurable]_vars
    BY NextKeepsDurable, Zenon
  <1>3. QED
    BY <1>1, <1>2, InitIInv, PTL DEF Spec, DurableRecordsStay
=============================================================================
