-------------------------- MODULE BlobFilesProofs ---------------------------
(***************************************************************************)
(* Proof that the canonical blob of every key is always complete and as    *)
(* the results say, that quarantined blobs are kept, that success leaves   *)
(* no staging file, and that cleanup spares the young.  An operation       *)
(* touches only the names of its own key, so one lemma (LocalStep) carries *)
(* the invariant over the steps of all of them.                            *)
(***************************************************************************)
EXTENDS BlobFiles, TLAPS

Saves == {"save", "saveStream"}
SaveNames(k) == {"save"} \X {k} \X Ids
ClearNames(k) == {"clear"} \X {k} \X Ids
QuarantineNames(k) == {"quarantine"} \X {k} \X Ids

(* The name an operation works on at each of its steps, and what it finds  *)
(* there.                                                                  *)
NameInv(k) ==
  LET o == op[k] IN
  /\ o.pc \in {"open", "refresh", "remove"} => o.name = Blob(k)
  /\ o.pc \in {"write", "commit", "replace"} =>
       /\ o.name \in SaveNames(k) /\ ~Free(o.name)
       /\ dir[o.name].value = o.value /\ dir[o.name].begun = o.begun
       /\ o.pc # "write" => dir[o.name].whole
  /\ o.pc = "sync" =>
       \/ o.kind \in Saves /\ o.name \in SaveNames(k) /\ Free(o.name)
       \/ o.kind = "clear" /\ ~Windows /\ o.name = Blob(k)
       \/ o.kind = "clear" /\ Windows /\ o.name \in ClearNames(k)
       \/ /\ o.kind = "quarantine"
          /\ o.name \in QuarantineNames(k) /\ ~Free(o.name) /\ dir[o.name].whole
  /\ o.pc = "delete" => o.name \in ClearNames(k)

(* What the operation is, and the state of its key: up to the step that    *)
(* moves or removes the blob the key is as its callers believe, from there *)
(* on as the operation is to leave it.                                     *)
KeyInv(k) ==
  LET o == op[k] IN
  /\ o # Idle => o.begun <= clock /\ (o.kind \in Saves <=> o.value \in Values)
  /\ o.pc \in {"open", "write", "commit", "replace"} => o.kind \in Saves
  /\ o.pc \in {"refresh", "delete"} => o.kind = "clear"
  /\ o.pc = "remove" => o.kind \in {"clear", "quarantine"}
  /\ IF o.pc \in {"sync", "delete"} THEN Content(k) = o.value
     ELSE Content(k) \in believed[k]

(* No file looks older than the operation that made it, by the clock that  *)
(* was never set back.                                                     *)
AgeInv == \A n \in Names : ~Free(n) => dir[n].mtime + behind >= dir[n].begun

DiagnosedInv == \A d \in diagnosed : d[1][1] = "quarantine"

(* Cleanup is alone, looks at staging names only and computes an age that  *)
(* is never above the true one.                                            *)
CleanupInv ==
  cleanup.running =>
    /\ \A k \in Keys : op[k] = Idle
    /\ \A n \in cleanup.todo :
         /\ OwnedTemporary(n)
         /\ ~Free(n) => cleanup.now - dir[n].mtime <= clock - dir[n].begun

FileInv ==
  /\ \A k \in Keys : NameInv(k) /\ KeyInv(k)
  /\ AgeInv
  /\ DiagnosedInv
  /\ CleanupInv
  /\ CanonicalComplete /\ QuarantineKeepsBlobs /\ SuccessLeavesNoStaging
  /\ CommitIsSynced

USE BlobFilesAssumption, NoFileAssumption
USE DEF fileVars

Inv == TypeOK /\ FileInv

(* The parts of a name, and what tells the kinds of names apart.           *)
LEMMA NameFacts ==
  /\ \A k \in Keys : Blob(k) \in Names /\ Blob(k)[1] = "blob" /\ Blob(k)[2] = k
  /\ \A k \in Keys : \A n \in SaveNames(k) :
       n \in Names /\ n[1] = "save" /\ n[2] = k /\ OwnedTemporary(n)
  /\ \A k \in Keys : \A n \in ClearNames(k) :
       n \in Names /\ n[1] = "clear" /\ n[2] = k /\ OwnedTemporary(n)
  /\ \A k \in Keys : \A n \in QuarantineNames(k) :
       n \in Names /\ n[1] = "quarantine" /\ n[2] = k /\ ~OwnedTemporary(n)
  /\ \A k \in Keys, i \in Ids :
       /\ Name("save", k, i) \in SaveNames(k)
       /\ Name("clear", k, i) \in ClearNames(k)
       /\ Name("quarantine", k, i) \in QuarantineNames(k)
  <1>1. \A k \in Keys : Blob(k) \in Names /\ Blob(k)[1] = "blob" /\ Blob(k)[2] = k
    BY DEF Blob, Name, Names
  <1>2. ASSUME NEW k \in Keys, NEW kind \in {"save", "clear", "quarantine"},
               NEW n \in {kind} \X {k} \X Ids
        PROVE  n \in Names /\ n[1] = kind /\ n[2] = k
    BY <1>2 DEF Names
  <1>3. \A k \in Keys, i \in Ids :
          /\ Name("save", k, i) \in SaveNames(k)
          /\ Name("clear", k, i) \in ClearNames(k)
          /\ Name("quarantine", k, i) \in QuarantineNames(k)
    BY DEF Name, SaveNames, ClearNames, QuarantineNames
  <1>4. \A k \in Keys : \A n \in SaveNames(k) :
          n \in Names /\ n[1] = "save" /\ n[2] = k /\ OwnedTemporary(n)
    BY <1>2 DEF SaveNames, OwnedTemporary
  <1>5. \A k \in Keys : \A n \in ClearNames(k) :
          n \in Names /\ n[1] = "clear" /\ n[2] = k /\ OwnedTemporary(n)
    BY <1>2 DEF ClearNames, OwnedTemporary
  <1>6. \A k \in Keys : \A n \in QuarantineNames(k) :
          n \in Names /\ n[1] = "quarantine" /\ n[2] = k /\ ~OwnedTemporary(n)
    BY <1>2 DEF QuarantineNames, OwnedTemporary
  <1> QED
    BY <1>1, <1>3, <1>4, <1>5, <1>6

(* A staging name is all that Staging can pick.                            *)
LEMMA StagingFacts ==
  ASSUME NEW o, o.name \in Names
  PROVE  /\ Staging(o) \subseteq {o.name}
         /\ OwnedTemporary(o.name) => o.name \in Staging(o)
  <1>1. Staging(o) \subseteq {o.name}
    BY DEF Staging
  <1>2. ASSUME OwnedTemporary(o.name) PROVE o.name \in {"save", "clear"} \X Keys \X Ids
    <2>1. o.name \notin {Blob(k) : k \in Keys}
      BY <1>2, NameFacts DEF OwnedTemporary
    <2> QED
      BY <1>2, <2>1 DEF Names, OwnedTemporary
  <1> QED
    BY <1>1, <1>2 DEF Staging

(* The record of a running operation.                                      *)
LEMMA OpFacts ==
  ASSUME TypeOK, NEW k \in Keys, op[k] # Idle
  PROVE  /\ op[k] \in Op
         /\ op[k].pc \in Pcs /\ op[k].pc # "idle"
         /\ op[k].kind \in Kinds /\ op[k].value \in Values \cup {Absent}
         /\ op[k].name \in Names /\ op[k].begun \in 0..MaxClock
  BY DEF TypeOK, Op, Pcs

(* An operation at a step other than "idle" is running.                    *)
LEMMA AtRunning ==
  ASSUME NEW k, NEW p, At(k, p), p # "idle"
  PROVE  op[k] # Idle /\ op[k].pc = p
  BY DEF At, Idle

(* What Goto does to the operation of k and to nobody else's.              *)
LEMMA GotoFacts ==
  ASSUME TypeOK, NEW k \in Keys, op[k] # Idle, NEW p \in Pcs, NEW n \in Names,
         Goto(k, p, n)
  PROVE  /\ op' \in [Keys -> Op \cup {Idle}]
         /\ op'[k] # Idle
         /\ op'[k].pc = p /\ op'[k].name = n
         /\ op'[k].kind = op[k].kind /\ op'[k].value = op[k].value
         /\ op'[k].begun = op[k].begun
         /\ \A j \in Keys \ {k} : op'[j] = op[j]
         /\ believed' = believed /\ succeeded' = succeeded
         /\ debris' = debris \ {n}
  <1>1. op[k] \in Op /\ op \in [Keys -> Op \cup {Idle}]
    BY OpFacts DEF TypeOK
  <1>2. op' = [op EXCEPT ![k] = [op[k] EXCEPT !.pc = p, !.name = n]]
    BY <1>1 DEF Goto, Op
  <1>3. /\ [op[k] EXCEPT !.pc = p, !.name = n] \in Op
        /\ op'[k] = [op[k] EXCEPT !.pc = p, !.name = n]
    BY <1>1, <1>2 DEF Op
  <1>4. /\ op'[k].pc = p /\ op'[k].name = n
        /\ op'[k].kind = op[k].kind /\ op'[k].value = op[k].value
        /\ op'[k].begun = op[k].begun
    BY <1>1, <1>3 DEF Op
  <1>5. op'[k] # Idle
    BY <1>4 DEF Idle, Pcs
  <1>6. op' \in [Keys -> Op \cup {Idle}] /\ \A j \in Keys \ {k} : op'[j] = op[j]
    BY <1>1, <1>2, <1>3
  <1> QED
    BY <1>4, <1>5, <1>6 DEF Goto

(* What Return does to the operation of k and to nobody else's.            *)
LEMMA ReturnFacts ==
  ASSUME TypeOK, NEW k \in Keys, op[k] # Idle, NEW r, Return(k, r)
  PROVE  /\ op' \in [Keys -> Op \cup {Idle}]
         /\ op'[k] = Idle /\ op'[k].pc = "idle"
         /\ \A j \in Keys \ {k} : op'[j] = op[j]
         /\ believed' \in [Keys -> SUBSET (Values \cup {Absent})]
         /\ believed'[k] = Conclusion(k, r)
         /\ \A j \in Keys \ {k} : believed'[j] = believed[j]
         /\ succeeded' \in [Keys -> Kinds \cup {"none"}]
         /\ succeeded'[k] = IF r = "Ok" THEN op[k].kind ELSE "none"
         /\ \A j \in Keys \ {k} : succeeded'[j] = succeeded[j]
         /\ debris' \subseteq Names /\ debris \subseteq debris'
         /\ r # "Ok" /\ OwnedTemporary(op[k].name) => op[k].name \in debris'
  <1>1. op[k].value \in Values \cup {Absent} /\ op[k].kind \in Kinds /\ op[k].name \in Names
    BY OpFacts
  <1>2. Conclusion(k, r) \in SUBSET (Values \cup {Absent})
    BY <1>1 DEF TypeOK, Conclusion
  <1>3. /\ Staging(op[k]) \subseteq {op[k].name}
        /\ OwnedTemporary(op[k].name) => op[k].name \in Staging(op[k])
    BY <1>1, StagingFacts
  <1>4. /\ debris' \subseteq Names /\ debris \subseteq debris'
        /\ r # "Ok" /\ OwnedTemporary(op[k].name) => op[k].name \in debris'
    BY <1>1, <1>3 DEF TypeOK, Return
  <1>5. /\ op' \in [Keys -> Op \cup {Idle}] /\ op'[k] = Idle
        /\ \A j \in Keys \ {k} : op'[j] = op[j]
    BY DEF TypeOK, Return
  <1>6. /\ believed' \in [Keys -> SUBSET (Values \cup {Absent})]
        /\ believed'[k] = Conclusion(k, r)
        /\ \A j \in Keys \ {k} : believed'[j] = believed[j]
    BY <1>2 DEF TypeOK, Return
  <1>7. /\ succeeded' \in [Keys -> Kinds \cup {"none"}]
        /\ succeeded'[k] = IF r = "Ok" THEN op[k].kind ELSE "none"
        /\ \A j \in Keys \ {k} : succeeded'[j] = succeeded[j]
    BY <1>1 DEF TypeOK, Return
  <1>8. op'[k].pc = "idle"
    BY <1>5 DEF Idle
  <1> QED
    BY <1>4, <1>5, <1>6, <1>7, <1>8

(* The operation of another key and its files are not touched.             *)
LEMMA OtherKey ==
  ASSUME Inv, NEW k \in Keys, NEW j \in Keys \ {k}, clock' = clock,
         op'[j] = op[j], believed'[j] = believed[j],
         \A n \in Names : n[2] = j => dir'[n] = dir[n]
  PROVE  NameInv(j)' /\ KeyInv(j)'
  <1>1. NameInv(j) /\ KeyInv(j)
    BY DEF Inv, FileInv
  <1>2. dir'[Blob(j)] = dir[Blob(j)]
    BY NameFacts
  <1>3. op[j].pc \in {"write", "commit", "replace", "sync"} =>
          \/ op[j].name = Blob(j)
          \/ op[j].name \in SaveNames(j) \cup ClearNames(j) \cup QuarantineNames(j)
    BY <1>1 DEF NameInv
  <1>4. op[j].pc \in {"write", "commit", "replace", "sync"} => dir'[op[j].name] = dir[op[j].name]
    BY <1>2, <1>3, NameFacts
  <1>5. NameInv(j)'
    BY <1>1, <1>4 DEF NameInv, Free
  <1>6. Content(j)' = Content(j)
    BY <1>2 DEF Content, Free
  <1>7. KeyInv(j)'
    BY <1>1, <1>6 DEF KeyInv
  <1> QED
    BY <1>5, <1>7

(* A step of the operation of k: it works on names of k, leaves the age of *)
(* a file true, takes no quarantine name that is in use, keeps the         *)
(* canonical blob whole, and accounts for the staging file, the sync and   *)
(* the diagnostic path.  Such a step preserves the invariant.              *)
LEMMA LocalStep ==
  ASSUME Inv, NEW k \in Keys, op[k] # Idle, UNCHANGED fileVars,
         op' \in [Keys -> Op \cup {Idle}],
         believed' \in [Keys -> SUBSET (Values \cup {Absent})],
         succeeded' \in [Keys -> Kinds \cup {"none"}],
         \A j \in Keys \ {k} : /\ op'[j] = op[j] /\ believed'[j] = believed[j]
                               /\ succeeded'[j] = succeeded[j],
         dir' \in [Names -> File \cup {NoFile}],
         \A n \in Names : n[2] # k => dir'[n] = dir[n],
         \A n \in Names : dir'[n] # NoFile => dir'[n].mtime + behind >= dir'[n].begun,
         \A n \in Names : n[1] = "quarantine" /\ ~Free(n) => dir'[n] = dir[n],
         dir'[Blob(k)] # NoFile => dir'[Blob(k)].whole,
         NameInv(k)', KeyInv(k)',
         debris' \subseteq Names,
         \A n \in Names :
           \/ n[2] # k /\ (n \in debris => n \in debris')
           \/ OwnedTemporary(n) /\ dir'[n] # NoFile =>
                n \in debris' \/ (op'[k] # Idle /\ op'[k].name = n),
         dirty' \subseteq dirty \cup {k},
         op'[k] = Idle /\ succeeded'[k] \in {"save", "saveStream", "quarantine"}
           => k \notin dirty',
         diagnosed' \subseteq (Names \X Values),
         \A d \in diagnosed' : d \in diagnosed \/
           (d[1][1] = "quarantine" /\ dir'[d[1]] # NoFile /\ dir'[d[1]].whole
              /\ dir'[d[1]].value = d[2])
  PROVE  Inv'
  <1>0. TypeOK /\ FileInv
    BY DEF Inv
  <1>1. TypeOK'
    BY <1>0 DEF TypeOK
  <1>2. \A j \in Keys : NameInv(j)' /\ KeyInv(j)'
    <2>1. ASSUME NEW j \in Keys \ {k} PROVE NameInv(j)' /\ KeyInv(j)'
      <3>1. \A n \in Names : n[2] = j => dir'[n] = dir[n]
        OBVIOUS
      <3> QED
        BY <3>1, OtherKey
    <2> QED
      BY <2>1
  <1>3. AgeInv'
    BY DEF AgeInv, Free
  <1>4. QuarantineKeepsBlobs' /\ DiagnosedInv'
    <2>1. ASSUME NEW d \in diagnosed
          PROVE  /\ d[1] \in Names /\ d[1][1] = "quarantine"
                 /\ dir[d[1]] # NoFile /\ dir[d[1]].whole /\ dir[d[1]].value = d[2]
      BY <1>0 DEF TypeOK, FileInv, DiagnosedInv, QuarantineKeepsBlobs, Free
    <2>2. ASSUME NEW d \in diagnosed PROVE dir'[d[1]] = dir[d[1]]
      BY <2>1 DEF Free
    <2> QED
      BY <2>1, <2>2 DEF DiagnosedInv, QuarantineKeepsBlobs, Free
  <1>5. CleanupInv'
    BY <1>0 DEF FileInv, CleanupInv
  <1>6. CanonicalComplete'
    <2>1. ASSUME NEW j \in Keys \ {k} PROVE dir'[Blob(j)] = dir[Blob(j)]
      BY NameFacts
    <2> QED
      BY <1>0, <2>1 DEF FileInv, CanonicalComplete, Free
  <1>7. SuccessLeavesNoStaging'
    <2> SUFFICES ASSUME NEW n \in Names, OwnedTemporary(n), dir'[n] # NoFile
                 PROVE  n \in debris' \/ \E j \in Keys : op'[j] # Idle /\ op'[j].name = n
      BY DEF SuccessLeavesNoStaging, Free, OwnedTemporary
    <2>1. CASE n[2] = k
      BY <2>1
    <2>2. CASE n[2] # k
      <3>1. dir[n] # NoFile
        BY <2>2
      <3>2. CASE n \in debris
        BY <2>2, <3>2
      <3>3. CASE \E j \in Keys : op[j] # Idle /\ op[j].name = n
        <4>1. PICK j \in Keys : op[j] # Idle /\ op[j].name = n
          BY <3>3
        <4>2. CASE j # k
          BY <4>1, <4>2
        <4>3. CASE j = k
          <5>1. op[k].name[2] = k
            BY <1>0, OpFacts, NameFacts DEF FileInv, NameInv, Pcs
          <5> QED
            BY <2>2, <4>1, <4>3, <5>1
        <4> QED
          BY <4>2, <4>3
      <3> QED
        BY <1>0, <3>1, <3>2, <3>3 DEF FileInv, SuccessLeavesNoStaging, Free
    <2> QED
      BY <2>1, <2>2
  <1>8. CommitIsSynced'
    BY <1>0 DEF FileInv, CommitIsSynced
  <1> QED
    BY <1>1, <1>2, <1>3, <1>4, <1>5, <1>6, <1>7, <1>8 DEF Inv, FileInv

(* An operation works on a name of its own key.                            *)
LEMMA OwnName ==
  ASSUME Inv, NEW j \in Keys, op[j] # Idle
  PROVE  op[j].name \in Names /\ op[j].name[2] = j
  BY OpFacts, NameFacts DEF Inv, FileInv, NameInv, Pcs

(* A staging file of k that is not the running operation's is debris.      *)
LEMMA OldStaging ==
  ASSUME Inv, NEW k \in Keys, NEW n \in Names, n[2] = k, OwnedTemporary(n), ~Free(n)
  PROVE  n \in debris \/ (op[k] # Idle /\ op[k].name = n)
  <1>1. n \in debris \/ \E j \in Keys : op[j] # Idle /\ op[j].name = n
    BY DEF Inv, FileInv, SuccessLeavesNoStaging
  <1> QED
    BY <1>1, OwnName

(* The diagnostic paths are of files that are there.                       *)
Diagnosed(d) ==
  d[1][1] = "quarantine" /\ dir'[d[1]] # NoFile /\ dir'[d[1]].whole
    /\ dir'[d[1]].value = d[2]

(* The operation of k ends: what it reports is what it leaves behind.      *)
LEMMA ReturnStep ==
  ASSUME Inv, NEW k \in Keys, op[k] # Idle, UNCHANGED fileVars, NEW r, Return(k, r),
         dir' \in [Names -> File \cup {NoFile}],
         \A n \in Names \ {op[k].name, Blob(k)} : dir'[n] = dir[n],
         \A n \in Names : dir'[n] # NoFile => dir'[n].mtime + behind >= dir'[n].begun,
         op[k].name[1] = "quarantine" => dir'[op[k].name] = dir[op[k].name],
         dir'[Blob(k)] # NoFile => dir'[Blob(k)].whole,
         r = "Ok" /\ OwnedTemporary(op[k].name) => dir'[op[k].name] = NoFile,
         Content(k)' \in Conclusion(k, r),
         dirty' \subseteq dirty \cup {k},
         r = "Ok" /\ op[k].kind # "clear" => k \notin dirty',
         diagnosed' \subseteq (Names \X Values),
         \A d \in diagnosed' : d \in diagnosed \/ Diagnosed(d)
  PROVE  Inv'
  <1>0. TypeOK
    BY DEF Inv
  <1>1. /\ op' \in [Keys -> Op \cup {Idle}]
        /\ op'[k] = Idle /\ op'[k].pc = "idle"
        /\ \A j \in Keys \ {k} : op'[j] = op[j]
        /\ believed' \in [Keys -> SUBSET (Values \cup {Absent})]
        /\ believed'[k] = Conclusion(k, r)
        /\ \A j \in Keys \ {k} : believed'[j] = believed[j]
        /\ succeeded' \in [Keys -> Kinds \cup {"none"}]
        /\ succeeded'[k] = IF r = "Ok" THEN op[k].kind ELSE "none"
        /\ \A j \in Keys \ {k} : succeeded'[j] = succeeded[j]
        /\ debris' \subseteq Names /\ debris \subseteq debris'
        /\ r # "Ok" /\ OwnedTemporary(op[k].name) => op[k].name \in debris'
    BY <1>0, ReturnFacts
  <1>2. /\ op[k].name \in Names /\ op[k].name[2] = k
        /\ Blob(k) \in Names /\ Blob(k)[1] = "blob" /\ Blob(k)[2] = k
    BY OwnName, NameFacts
  <1>3. NameInv(k)' /\ KeyInv(k)'
    BY <1>1 DEF NameInv, KeyInv
  <1>4. \A n \in Names : n[2] # k => dir'[n] = dir[n]
    BY <1>2
  <1>5. \A n \in Names : n[1] = "quarantine" /\ ~Free(n) => dir'[n] = dir[n]
    BY <1>2
  <1>6. ASSUME NEW n \in Names, n[2] = k, OwnedTemporary(n), dir'[n] # NoFile
        PROVE  n \in debris'
    <2>1. CASE n = op[k].name
      BY <1>1, <1>6, <2>1
    <2>2. CASE n # op[k].name
      <3>1. n # Blob(k)
        BY <1>2, <1>6 DEF OwnedTemporary
      <3>2. n \in debris
        BY <1>6, <2>2, <3>1, OldStaging DEF Free
      <3> QED
        BY <1>1, <3>2
    <2> QED
      BY <2>1, <2>2
  <1>7. \A n \in Names :
          \/ n[2] # k /\ (n \in debris => n \in debris')
          \/ OwnedTemporary(n) /\ dir'[n] # NoFile =>
               n \in debris' \/ (op'[k] # Idle /\ op'[k].name = n)
    BY <1>1, <1>6
  <1>8. op'[k] = Idle /\ succeeded'[k] \in {"save", "saveStream", "quarantine"}
          => k \notin dirty'
    BY <1>1
  <1>9. \A d \in diagnosed' : d \in diagnosed \/
           (d[1][1] = "quarantine" /\ dir'[d[1]] # NoFile /\ dir'[d[1]].whole
              /\ dir'[d[1]].value = d[2])
    BY DEF Diagnosed
  <1>10. \A j \in Keys \ {k} : /\ op'[j] = op[j] /\ believed'[j] = believed[j]
                               /\ succeeded'[j] = succeeded[j]
    BY <1>1
  <1> QED
    BY <1>1, <1>3, <1>4, <1>5, <1>7, <1>8, <1>9, <1>10, LocalStep

(* The operation of k goes on to its next step, under the name n.          *)
LEMMA GotoStep ==
  ASSUME Inv, NEW k \in Keys, op[k] # Idle, UNCHANGED fileVars,
         NEW p \in Pcs, NEW n \in Names, Goto(k, p, n),
         n[2] = k, op[k].name \in {n, Blob(k)},
         dir' \in [Names -> File \cup {NoFile}],
         \A m \in Names \ {n, Blob(k)} : dir'[m] = dir[m],
         \A m \in Names : dir'[m] # NoFile => dir'[m].mtime + behind >= dir'[m].begun,
         n[1] = "quarantine" /\ ~Free(n) => dir'[n] = dir[n],
         dir'[Blob(k)] # NoFile => dir'[Blob(k)].whole,
         NameInv(k)', KeyInv(k)',
         dirty' \subseteq dirty \cup {k},
         diagnosed' = diagnosed
  PROVE  Inv'
  <1>0. TypeOK
    BY DEF Inv
  <1>1. /\ op' \in [Keys -> Op \cup {Idle}]
        /\ op'[k] # Idle /\ op'[k].name = n
        /\ \A j \in Keys \ {k} : op'[j] = op[j]
        /\ believed' = believed /\ succeeded' = succeeded
        /\ debris' = debris \ {n}
    BY <1>0, GotoFacts
  <1>2. Blob(k) \in Names /\ Blob(k)[1] = "blob" /\ Blob(k)[2] = k
    BY NameFacts
  <1>3. \A m \in Names : m[2] # k => dir'[m] = dir[m]
    BY <1>2
  <1>4. \A m \in Names : m[1] = "quarantine" /\ ~Free(m) => dir'[m] = dir[m]
    BY <1>2
  <1>5. ASSUME NEW m \in Names, m[2] = k, OwnedTemporary(m), dir'[m] # NoFile, m # n
        PROVE  m \in debris'
    <2>1. m # Blob(k) /\ m # op[k].name
      BY <1>2, <1>5 DEF OwnedTemporary
    <2>2. m \in debris
      BY <1>5, <2>1, OldStaging DEF Free
    <2> QED
      BY <1>1, <1>5, <2>2
  <1>6. \A m \in Names :
          \/ m[2] # k /\ (m \in debris => m \in debris')
          \/ OwnedTemporary(m) /\ dir'[m] # NoFile =>
               m \in debris' \/ (op'[k] # Idle /\ op'[k].name = m)
    BY <1>1, <1>5
  <1>7. /\ believed' \in [Keys -> SUBSET (Values \cup {Absent})]
        /\ succeeded' \in [Keys -> Kinds \cup {"none"}]
        /\ debris' \subseteq Names /\ diagnosed' \subseteq (Names \X Values)
    BY <1>0, <1>1 DEF TypeOK
  <1>8. \A j \in Keys \ {k} : /\ op'[j] = op[j] /\ believed'[j] = believed[j]
                              /\ succeeded'[j] = succeeded[j]
    BY <1>1
  <1> QED
    BY <1>1, <1>3, <1>4, <1>6, <1>7, <1>8, LocalStep

(* What is known of a file that is there, and of the clock.                *)
LEMMA FileFacts ==
  ASSUME Inv, NEW n \in Names, ~Free(n)
  PROVE  /\ dir[n] \in File /\ dir[n] # NoFile
         /\ dir[n].value \in Values /\ dir[n].mtime + behind >= dir[n].begun
  BY DEF Inv, TypeOK, FileInv, AgeInv, Free, File

(* The system's clock is behind the true one by as much as it was set back.*)
LEMMA WallFacts ==
  ASSUME TypeOK
  PROVE  Wall \in WallTimes /\ Wall + behind = clock /\ clock \in Nat /\ behind \in Nat
  BY DEF TypeOK, Wall, WallTimes

(* A running operation's own conjuncts of the invariant, and the name and  *)
(* the value it works with.                                                *)
LEMMA OpInv ==
  ASSUME Inv, NEW k \in Keys, op[k] # Idle
  PROVE  /\ NameInv(k) /\ KeyInv(k) /\ TypeOK
         /\ op[k].begun \in 0..MaxClock /\ op[k].begun <= clock
         /\ op[k].kind \in Saves => op[k].value \in Values
         /\ op[k].kind \notin Saves => op[k].value = Absent
  BY OpFacts DEF Inv, FileInv, KeyInv

(* The operation ends without having done anything in this step.           *)
LEMMA QuietReturn ==
  ASSUME Inv, NEW k \in Keys, op[k] # Idle, UNCHANGED fileVars, NEW r, Return(k, r),
         dir' = dir, dirty' = dirty, diagnosed' = diagnosed,
         r # "Ok" \/ (op[k].kind = "clear" /\ op[k].name = Blob(k)),
         Content(k) \in Conclusion(k, r)
  PROVE  Inv'
  <1>1. /\ dir' \in [Names -> File \cup {NoFile}]
        /\ diagnosed' \subseteq (Names \X Values)
    BY DEF Inv, TypeOK
  <1>2. \A n \in Names : dir'[n] # NoFile => dir'[n].mtime + behind >= dir'[n].begun
    BY DEF Inv, FileInv, AgeInv, Free
  <1>3. dir'[Blob(k)] # NoFile => dir'[Blob(k)].whole
    BY DEF Inv, FileInv, CanonicalComplete, Free
  <1>4. r = "Ok" /\ OwnedTemporary(op[k].name) => dir'[op[k].name] = NoFile
    BY NameFacts DEF OwnedTemporary
  <1>5. Content(k)' = Content(k)
    BY DEF Content, Free
  <1> QED
    BY <1>1, <1>2, <1>3, <1>4, <1>5, ReturnStep

(* An operation that has not touched the blob yet ends with an error that  *)
(* says so.                                                                *)
LEMMA QuietError ==
  ASSUME Inv, NEW k \in Keys, op[k] # Idle, op[k].pc \notin {"sync", "delete"},
         UNCHANGED fileVars,
         NEW r \in {"OpenAtomicWriter", "AtomicCommit", "InspectNamespace",
                    "RemoveBlob", "QuarantineCommit"},
         Return(k, r), dir' = dir, dirty' = dirty, diagnosed' = diagnosed
  PROVE  Inv'
  <1>1. Content(k) \in believed[k]
    BY OpInv DEF KeyInv
  <1>2. Content(k) \in Conclusion(k, r)
    BY <1>1 DEF Conclusion
  <1> QED
    BY <1>2, QuietReturn

(* The staging file is created.                                            *)
LEMMA SaveOpenStep ==
  ASSUME Inv, NEW k \in Keys, NEW ok \in BOOLEAN, SaveOpen(k, ok)
  PROVE  Inv'
  <1>1. op[k] # Idle /\ op[k].pc = "open" /\ UNCHANGED <<fileVars, dirty, diagnosed>>
    BY AtRunning DEF SaveOpen
  <1>2. /\ TypeOK /\ op[k].name = Blob(k) /\ op[k].kind \in Saves
        /\ op[k].value \in Values /\ op[k].begun \in 0..MaxClock /\ op[k].begun <= clock
        /\ Content(k) \in believed[k]
    BY <1>1, OpInv DEF NameInv, KeyInv
  <1>3. CASE ok
    <2>1. PICK i \in Ids :
            /\ Free(StagingName(k, i))
            /\ dir' = [dir EXCEPT ![StagingName(k, i)] =
                 [value |-> op[k].value, whole |-> FALSE, mtime |-> Wall,
                  begun |-> op[k].begun]]
            /\ Goto(k, "write", StagingName(k, i))
      BY <1>3 DEF SaveOpen
    <2> DEFINE n == StagingName(k, i)
               f == [value |-> op[k].value, whole |-> FALSE, mtime |-> Wall,
                     begun |-> op[k].begun]
    <2>2. /\ n \in SaveNames(k) /\ n \in Names /\ n[1] = "save" /\ n[2] = k
          /\ Blob(k) \in Names /\ Blob(k)[1] = "blob"
      BY NameFacts DEF StagingName
    <2>3. /\ f \in File /\ f.mtime + behind >= f.begun
          /\ f.value = op[k].value /\ f.begun = op[k].begun
      BY <1>2, WallFacts DEF File
    <2> HIDE DEF n, f
    <2>4. /\ dir' \in [Names -> File \cup {NoFile}]
          /\ dir'[n] = f
          /\ \A m \in Names \ {n} : dir'[m] = dir[m]
      BY <1>2, <2>1, <2>2, <2>3 DEF TypeOK, n, f
    <2>5. \A m \in Names : dir'[m] # NoFile => dir'[m].mtime + behind >= dir'[m].begun
      BY <2>3, <2>4 DEF Inv, FileInv, AgeInv, Free
    <2>6. dir'[Blob(k)] = dir[Blob(k)]
      BY <2>2, <2>4
    <2>7. dir'[Blob(k)] # NoFile => dir'[Blob(k)].whole
      BY <2>6 DEF Inv, FileInv, CanonicalComplete, Free
    <2>8. /\ op'[k] # Idle /\ op'[k].pc = "write" /\ op'[k].name = n
          /\ op'[k].kind = op[k].kind /\ op'[k].value = op[k].value
          /\ op'[k].begun = op[k].begun /\ believed' = believed
      BY <1>1, <1>2, <2>1, <2>2, GotoFacts DEF n, Pcs
    <2>9. NameInv(k)'
      BY <2>2, <2>3, <2>4, <2>8 DEF NameInv, Free
    <2>10. Content(k)' = Content(k)
      BY <2>6 DEF Content, Free
    <2>11. KeyInv(k)'
      BY <1>1, <1>2, <2>8, <2>10 DEF KeyInv
    <2>12. Goto(k, "write", n) /\ "write" \in Pcs
      BY <2>1 DEF n, Pcs
    <2> QED
      BY <1>1, <1>2, <2>2, <2>4, <2>5, <2>7, <2>9, <2>11, <2>12, GotoStep
  <1>4. CASE ~ok
    BY <1>1, <1>4, QuietError DEF SaveOpen
  <1> QED
    BY <1>3, <1>4

(* One name gets another file, or none.                                    *)
LEMMA SetFile ==
  ASSUME Inv, NEW n \in Names, NEW f \in File \cup {NoFile},
         f # NoFile => f.mtime + behind >= f.begun,
         dir' = [dir EXCEPT ![n] = f]
  PROVE  /\ dir' \in [Names -> File \cup {NoFile}]
         /\ dir'[n] = f
         /\ \A m \in Names \ {n} : dir'[m] = dir[m]
         /\ \A m \in Names : dir'[m] # NoFile => dir'[m].mtime + behind >= dir'[m].begun
  BY DEF Inv, TypeOK, FileInv, AgeInv, Free

(* A file moves from one name to another.                                  *)
LEMMA RenameFile ==
  ASSUME Inv, NEW n \in Names, NEW m \in Names, n # m, ~Free(n), dir' = Rename(n, m)
  PROVE  /\ dir' \in [Names -> File \cup {NoFile}]
         /\ dir'[n] = NoFile /\ dir'[m] = dir[n]
         /\ \A x \in Names \ {n, m} : dir'[x] = dir[x]
         /\ \A x \in Names : dir'[x] # NoFile => dir'[x].mtime + behind >= dir'[x].begun
  BY DEF Inv, TypeOK, FileInv, AgeInv, Free, Rename

(* The canonical blob, as it is before a step.                             *)
LEMMA BlobFacts ==
  ASSUME Inv, NEW k \in Keys
  PROVE  /\ Blob(k) \in Names /\ Blob(k)[1] = "blob" /\ Blob(k)[2] = k
         /\ ~OwnedTemporary(Blob(k))
         /\ dir[Blob(k)] # NoFile => dir[Blob(k)].whole
         /\ dir'[Blob(k)] = dir[Blob(k)] => Content(k)' = Content(k)
         /\ dir'[Blob(k)] = NoFile => Content(k)' = Absent
         /\ dir'[Blob(k)] # NoFile => Content(k)' = dir'[Blob(k)].value
  BY NameFacts DEF Inv, FileInv, CanonicalComplete, Free, Content, OwnedTemporary

(* A save that has its staging file: the name, the file and the state of   *)
(* the key.                                                                *)
LEMMA StagedSave ==
  ASSUME Inv, NEW k \in Keys, op[k] # Idle, op[k].pc \in {"write", "commit", "replace"}
  PROVE  /\ TypeOK /\ op[k].name \in SaveNames(k)
         /\ op[k].name \in Names /\ op[k].name[1] = "save" /\ op[k].name[2] = k
         /\ op[k].name # Blob(k)
         /\ ~Free(op[k].name) /\ dir[op[k].name].value = op[k].value
         /\ dir[op[k].name].begun = op[k].begun
         /\ op[k].pc # "write" => dir[op[k].name].whole
         /\ op[k].kind \in Saves /\ op[k].value \in Values
         /\ op[k].begun \in 0..MaxClock /\ op[k].begun <= clock
         /\ Content(k) \in believed[k]
  <1>1. /\ NameInv(k) /\ KeyInv(k) /\ TypeOK
        /\ op[k].begun \in 0..MaxClock /\ op[k].begun <= clock
        /\ op[k].kind \in Saves => op[k].value \in Values
    BY OpInv
  <1>2. /\ op[k].name \in SaveNames(k)
        /\ ~Free(op[k].name) /\ dir[op[k].name].value = op[k].value
        /\ dir[op[k].name].begun = op[k].begun
        /\ op[k].pc # "write" => dir[op[k].name].whole
    BY <1>1 DEF NameInv
  <1>3. op[k].kind \in Saves /\ Content(k) \in believed[k]
    BY <1>1 DEF KeyInv
  <1> QED
    BY <1>1, <1>2, <1>3, NameFacts

(* The envelope is written under the staging name.                         *)
LEMMA SaveWriteStep ==
  ASSUME Inv, NEW k \in Keys, NEW ok \in BOOLEAN, SaveWrite(k, ok)
  PROVE  Inv'
  <1> DEFINE n == op[k].name
  <1>1. op[k] # Idle /\ op[k].pc = "write" /\ UNCHANGED <<fileVars, dirty, diagnosed>>
    BY AtRunning DEF SaveWrite
  <1>2. /\ TypeOK /\ n \in SaveNames(k) /\ n \in Names /\ n[1] = "save" /\ n[2] = k
        /\ n # Blob(k) /\ ~Free(n)
        /\ dir[n].value = op[k].value /\ dir[n].begun = op[k].begun
        /\ op[k].kind \in Saves /\ op[k].value \in Values
        /\ op[k].begun \in 0..MaxClock /\ op[k].begun <= clock
        /\ Content(k) \in believed[k]
    BY <1>1, StagedSave
  <1>3. dir[n] \in File /\ dir[n] # NoFile /\ dir[n].mtime + behind >= dir[n].begun
    BY <1>2, FileFacts
  <1>b. /\ Blob(k) \in Names /\ Blob(k)[1] = "blob" /\ Blob(k)[2] = k
        /\ dir[Blob(k)] # NoFile => dir[Blob(k)].whole
        /\ dir'[Blob(k)] = dir[Blob(k)] => Content(k)' = Content(k)
    BY BlobFacts
  <1>4. CASE ok
    <2> DEFINE f == [dir[n] EXCEPT !.whole = TRUE, !.mtime = Wall]
    <2>1. Goto(k, "commit", n) /\ "commit" \in Pcs
      BY <1>4 DEF SaveWrite, Pcs
    <2>2. dir' = [dir EXCEPT ![n] = f]
      BY <1>2, <1>3, <1>4 DEF SaveWrite, TypeOK, File
    <2>3. /\ f \in File /\ f.whole /\ f.value = op[k].value
          /\ f.mtime = Wall /\ f.begun = op[k].begun
      BY <1>2, <1>3, WallFacts DEF File
    <2>4. f.mtime + behind >= f.begun
      BY <1>2, <2>3, WallFacts
    <2> HIDE DEF f
    <2>5. /\ dir' \in [Names -> File \cup {NoFile}]
          /\ dir'[n] = f
          /\ \A m \in Names \ {n} : dir'[m] = dir[m]
          /\ \A m \in Names : dir'[m] # NoFile => dir'[m].mtime + behind >= dir'[m].begun
      BY <1>2, <2>2, <2>3, <2>4, SetFile
    <2>6. dir'[Blob(k)] = dir[Blob(k)]
      BY <1>2, <1>b, <2>5
    <2>7. /\ op'[k] # Idle /\ op'[k].pc = "commit" /\ op'[k].name = n
          /\ op'[k].kind = op[k].kind /\ op'[k].value = op[k].value
          /\ op'[k].begun = op[k].begun /\ believed' = believed
      BY <1>1, <1>2, <2>1, GotoFacts
    <2>8. NameInv(k)'
      BY <1>2, <2>3, <2>5, <2>7 DEF NameInv, Free
    <2>9. KeyInv(k)'
      BY <1>1, <1>2, <1>b, <2>6, <2>7 DEF KeyInv
    <2> QED
      BY <1>1, <1>2, <1>b, <2>1, <2>5, <2>6, <2>8, <2>9, GotoStep
  <1>5. CASE ~ok
    <2>1. PICK f \in AfterFailedWrite(k) : dir' = [dir EXCEPT ![n] = f]
      BY <1>5 DEF SaveWrite
    <2>2. Return(k, "WriteEnvelope")
      BY <1>5 DEF SaveWrite
    <2>3. f \in {NoFile, dir[n]}
      BY DEF AfterFailedWrite
    <2>4. f \in File \cup {NoFile} /\ (f # NoFile => f.mtime + behind >= f.begun)
      BY <1>3, <2>3
    <2>5. /\ dir' \in [Names -> File \cup {NoFile}]
          /\ \A m \in Names \ {n} : dir'[m] = dir[m]
          /\ \A m \in Names : dir'[m] # NoFile => dir'[m].mtime + behind >= dir'[m].begun
      BY <1>2, <2>1, <2>4, SetFile
    <2>6. dir'[Blob(k)] = dir[Blob(k)]
      BY <1>2, <1>b, <2>5
    <2>7. Content(k)' \in Conclusion(k, "WriteEnvelope")
      BY <1>2, <1>b, <2>6 DEF Conclusion
    <2>8. diagnosed' \subseteq (Names \X Values)
      BY <1>1, <1>2 DEF TypeOK
    <2> QED
      BY <1>1, <1>2, <1>b, <2>2, <2>5, <2>6, <2>7, <2>8, ReturnStep
  <1> QED
    BY <1>4, <1>5

(* Unix: the staged envelope replaces the blob, or the commit fails on the *)
(* one side of the rename or on the other.                                 *)
LEMMA UnixCommitStep ==
  ASSUME Inv, NEW k \in Keys, NEW ok \in BOOLEAN, UnixCommit(k, ok)
  PROVE  Inv'
  <1> DEFINE n == op[k].name
             r == IF ok THEN "Ok" ELSE CommitError
  <1>1. op[k] # Idle /\ op[k].pc = "commit" /\ UNCHANGED <<fileVars, diagnosed>>
    BY AtRunning DEF UnixCommit
  <1>2. /\ TypeOK /\ n \in Names /\ n[1] = "save" /\ n # Blob(k) /\ ~Free(n)
        /\ dir[n].value = op[k].value /\ dir[n].whole
        /\ op[k].kind \in Saves /\ Content(k) \in believed[k]
    BY <1>1, StagedSave
  <1>3. dir[n] # NoFile
    BY <1>2, FileFacts
  <1>4. PICK moved \in (IF ok THEN {TRUE} ELSE BOOLEAN) :
          /\ dir' = IF moved THEN Rename(n, Blob(k)) ELSE [dir EXCEPT ![n] = NoFile]
          /\ dirty' = IF ok THEN {} ELSE IF moved THEN dirty \cup {k} ELSE dirty
    BY DEF UnixCommit
  <1>5. Return(k, r) /\ (ok => moved)
    BY DEF UnixCommit
  <1>6. /\ Blob(k) \in Names
        /\ dir[Blob(k)] # NoFile => dir[Blob(k)].whole
        /\ dir'[Blob(k)] = dir[Blob(k)] => Content(k)' = Content(k)
        /\ dir'[Blob(k)] # NoFile => Content(k)' = dir'[Blob(k)].value
    BY BlobFacts
  <1>7. /\ dir' \in [Names -> File \cup {NoFile}]
        /\ \A m \in Names \ {n, Blob(k)} : dir'[m] = dir[m]
        /\ \A m \in Names : dir'[m] # NoFile => dir'[m].mtime + behind >= dir'[m].begun
        /\ dir'[n] = NoFile
        /\ dir'[Blob(k)] = IF moved THEN dir[n] ELSE dir[Blob(k)]
    <2>1. CASE moved
      BY <1>2, <1>4, <1>6, <2>1, RenameFile
    <2>2. CASE ~moved
      BY <1>2, <1>4, <1>6, <2>2, SetFile
    <2> QED
      BY <2>1, <2>2
  <1>8. dir'[Blob(k)] # NoFile => dir'[Blob(k)].whole
    BY <1>2, <1>6, <1>7
  <1>9. Content(k)' \in Conclusion(k, r)
    BY <1>2, <1>3, <1>5, <1>6, <1>7 DEF Conclusion, CommitError
  <1>10. dirty' \subseteq dirty \cup {k} /\ (r = "Ok" => k \notin dirty')
    BY <1>4 DEF CommitError
  <1>11. diagnosed' \subseteq (Names \X Values) /\ diagnosed' = diagnosed
    BY <1>1, <1>2 DEF TypeOK
  <1> HIDE DEF r
  <1> QED
    BY <1>1, <1>2, <1>5, <1>7, <1>8, <1>9, <1>10, <1>11, ReturnStep

(* Windows: a move that replaces nothing finds a blob, the staged envelope *)
(* is moved to the canonical name, or the move fails.                      *)
LEMMA WindowsMoveStep ==
  ASSUME Inv, NEW k \in Keys, NEW ok \in BOOLEAN, WindowsMove(k, ok)
  PROVE  Inv'
  <1> DEFINE n == op[k].name
  <1>1. /\ op[k] # Idle /\ op[k].pc \in {"commit", "replace"}
        /\ UNCHANGED <<fileVars, diagnosed>>
    BY AtRunning DEF WindowsMove
  <1>2. /\ TypeOK /\ n \in SaveNames(k) /\ n \in Names /\ n[1] = "save" /\ n[2] = k
        /\ n # Blob(k) /\ ~Free(n)
        /\ dir[n].value = op[k].value /\ dir[n].begun = op[k].begun /\ dir[n].whole
        /\ op[k].kind \in Saves /\ op[k].value \in Values
        /\ op[k].begun <= clock /\ Content(k) \in believed[k]
    BY <1>1, StagedSave
  <1>3. dir[n] # NoFile
    BY <1>2, FileFacts
  <1>4. /\ Blob(k) \in Names
        /\ dir[Blob(k)] # NoFile => dir[Blob(k)].whole
        /\ dir'[Blob(k)] = dir[Blob(k)] => Content(k)' = Content(k)
        /\ dir'[Blob(k)] # NoFile => Content(k)' = dir'[Blob(k)].value
    BY BlobFacts
  <1>5. CASE ~ok
    <2>1. Return(k, "AtomicCommit") /\ UNCHANGED <<dir, dirty>>
      BY <1>5 DEF WindowsMove, CommitError
    <2> QED
      BY <1>1, <2>1, QuietError
  <1>6. CASE ok /\ op[k].pc = "commit" /\ ~Free(Blob(k))
    <2>1. Goto(k, "replace", n) /\ "replace" \in Pcs /\ dir' = dir /\ dirty' = dirty
      BY <1>6 DEF WindowsMove, BeforeReplace, Pcs
    <2>2. /\ op'[k] # Idle /\ op'[k].pc = "replace" /\ op'[k].name = n
          /\ op'[k].kind = op[k].kind /\ op'[k].value = op[k].value
          /\ op'[k].begun = op[k].begun /\ believed' = believed
      BY <1>1, <1>2, <2>1, GotoFacts
    <2>3. NameInv(k)'
      BY <1>2, <2>1, <2>2 DEF NameInv, Free
    <2>4. KeyInv(k)'
      BY <1>1, <1>2, <1>4, <2>1, <2>2 DEF KeyInv
    <2>5. /\ dir' \in [Names -> File \cup {NoFile}]
          /\ \A m \in Names : dir'[m] # NoFile => dir'[m].mtime + behind >= dir'[m].begun
      BY <2>1 DEF Inv, TypeOK, FileInv, AgeInv, Free
    <2> QED
      BY <1>1, <1>2, <1>4, <2>1, <2>3, <2>4, <2>5, GotoStep
  <1>7. CASE ok /\ ~(op[k].pc = "commit" /\ ~Free(Blob(k)))
    <2>1. /\ Goto(k, "sync", n) /\ "sync" \in Pcs
          /\ dir' = Rename(n, Blob(k)) /\ dirty' = dirty \cup {k}
      BY <1>7 DEF WindowsMove, Pcs
    <2>2. /\ dir' \in [Names -> File \cup {NoFile}]
          /\ dir'[n] = NoFile /\ dir'[Blob(k)] = dir[n]
          /\ \A m \in Names \ {n, Blob(k)} : dir'[m] = dir[m]
          /\ \A m \in Names : dir'[m] # NoFile => dir'[m].mtime + behind >= dir'[m].begun
      BY <1>2, <1>4, <2>1, RenameFile
    <2>3. /\ op'[k] # Idle /\ op'[k].pc = "sync" /\ op'[k].name = n
          /\ op'[k].kind = op[k].kind /\ op'[k].value = op[k].value
          /\ op'[k].begun = op[k].begun
      BY <1>1, <1>2, <2>1, GotoFacts
    <2>4. NameInv(k)'
      BY <1>2, <2>2, <2>3 DEF NameInv, Free
    <2>5. KeyInv(k)'
      BY <1>1, <1>2, <1>3, <1>4, <2>2, <2>3 DEF KeyInv
    <2> QED
      BY <1>1, <1>2, <1>4, <2>1, <2>2, <2>4, <2>5, GotoStep
  <1> QED
    BY <1>5, <1>6, <1>7

(* A clear or a quarantine that has not moved the blob yet.                *)
LEMMA PendingRemoval ==
  ASSUME Inv, NEW k \in Keys, op[k] # Idle, op[k].pc \in {"refresh", "remove"}
  PROVE  /\ TypeOK /\ op[k].name = Blob(k)
         /\ op[k].kind \notin Saves /\ op[k].value = Absent /\ op[k].value \notin Values
         /\ op[k].begun \in 0..MaxClock /\ op[k].begun <= clock
         /\ Content(k) \in believed[k]
         /\ op[k].pc = "refresh" => op[k].kind = "clear"
  BY OpInv DEF NameInv, KeyInv, Saves

(* The modification time of the blob is refreshed for a clear on Windows.  *)
LEMMA ClearRefreshStep ==
  ASSUME Inv, NEW k \in Keys, NEW ok \in BOOLEAN, ClearRefresh(k, ok)
  PROVE  Inv'
  <1> DEFINE b == Blob(k)
             f == RefreshClearAge(k)
  <1>1. op[k] # Idle /\ op[k].pc = "refresh" /\ UNCHANGED <<fileVars, dirty, diagnosed>>
    BY AtRunning DEF ClearRefresh
  <1>2. /\ TypeOK /\ op[k].name = b /\ op[k].kind = "clear" /\ op[k].kind \notin Saves
        /\ op[k].value = Absent /\ op[k].value \notin Values
        /\ op[k].begun \in 0..MaxClock /\ op[k].begun <= clock
        /\ Content(k) \in believed[k]
    BY <1>1, PendingRemoval
  <1>3. /\ b \in Names /\ b[1] = "blob" /\ b[2] = k /\ ~OwnedTemporary(b)
        /\ dir[b] # NoFile => dir[b].whole
        /\ dir'[b] = dir[b] => Content(k)' = Content(k)
        /\ dir'[b] # NoFile => Content(k)' = dir'[b].value
    BY BlobFacts
  <1>4. CASE Free(b)
    <2>1. Return(k, IF ok THEN "Ok" ELSE "InspectNamespace") /\ dir' = dir
      BY <1>4 DEF ClearRefresh
    <2>2. Content(k) = op[k].value
      BY <1>2, <1>4 DEF Content
    <2>3. CASE ok
      BY <1>1, <1>2, <2>1, <2>2, <2>3, QuietReturn DEF Conclusion
    <2>4. CASE ~ok
      BY <1>1, <2>1, <2>4, QuietError
    <2> QED
      BY <2>3, <2>4
  <1>5. ASSUME ~Free(b)
        PROVE  /\ f \in File /\ f # NoFile /\ f.mtime + behind >= f.begun
               /\ f.whole /\ f.value = Content(k)
    <2>1. dir[b] \in File /\ dir[b] # NoFile
      BY <1>3, <1>5, FileFacts
    <2>2. /\ f \in File /\ f.mtime = Wall /\ f.begun = op[k].begun
          /\ f.whole = dir[b].whole /\ f.value = dir[b].value
      BY <1>2, <2>1, WallFacts DEF RefreshClearAge, File
    <2>3. f.mtime + behind >= f.begun
      BY <1>2, <2>2, WallFacts
    <2> QED
      BY <1>3, <1>5, <2>1, <2>2, <2>3 DEF Content
  <1> HIDE DEF f
  <1>6. ASSUME ~Free(b), dir' = [dir EXCEPT ![b] = f]
        PROVE  /\ dir' \in [Names -> File \cup {NoFile}]
               /\ \A m \in Names \ {b} : dir'[m] = dir[m]
               /\ \A m \in Names : dir'[m] # NoFile => dir'[m].mtime + behind >= dir'[m].begun
               /\ dir'[b].whole /\ Content(k)' = Content(k)
    <2>1. /\ dir' \in [Names -> File \cup {NoFile}]
          /\ dir'[b] = f
          /\ \A m \in Names \ {b} : dir'[m] = dir[m]
          /\ \A m \in Names : dir'[m] # NoFile => dir'[m].mtime + behind >= dir'[m].begun
      BY <1>3, <1>5, <1>6, SetFile
    <2> QED
      BY <1>3, <1>5, <1>6, <2>1
  <1>7. CASE ok /\ ~Free(b)
    <2>1. /\ dir' = [dir EXCEPT ![b] = f]
          /\ Goto(k, "remove", b) /\ "remove" \in Pcs
      BY <1>7 DEF ClearRefresh, Pcs, f
    <2>2. /\ op'[k] # Idle /\ op'[k].pc = "remove" /\ op'[k].name = b
          /\ op'[k].kind = op[k].kind /\ op'[k].value = op[k].value
          /\ op'[k].begun = op[k].begun /\ believed' = believed
      BY <1>1, <1>2, <1>3, <2>1, GotoFacts
    <2>3. NameInv(k)'
      BY <2>2 DEF NameInv
    <2>4. KeyInv(k)'
      BY <1>1, <1>2, <1>6, <1>7, <2>1, <2>2 DEF KeyInv
    <2> QED
      BY <1>1, <1>2, <1>3, <1>6, <1>7, <2>1, <2>3, <2>4, GotoStep
  <1>8. CASE ~ok /\ ~Free(b)
    <2>1. /\ dir' = dir \/ dir' = [dir EXCEPT ![b] = f]
          /\ Return(k, "RefreshClearStagingAge")
      BY <1>8 DEF ClearRefresh, f
    <2>2. believed[k] = Conclusion(k, "RefreshClearStagingAge")
      BY DEF Conclusion
    <2>3. CASE dir' = dir
      BY <1>1, <1>2, <2>1, <2>2, <2>3, QuietReturn
    <2>4. CASE dir' = [dir EXCEPT ![b] = f]
      <3>1. diagnosed' \subseteq (Names \X Values)
        BY <1>1, <1>2 DEF TypeOK
      <3> QED
        BY <1>1, <1>2, <1>3, <1>6, <1>8, <2>1, <2>2, <2>4, <3>1, ReturnStep
    <2> QED
      BY <2>1, <2>3, <2>4
  <1> QED
    BY <1>4, <1>7, <1>8

(* The blob leaves its canonical name: it is deleted or moved to the name  *)
(* n, and the operation goes on to the sync.                               *)
LEMMA BlobRemoved ==
  ASSUME Inv, NEW k \in Keys, op[k] # Idle, op[k].pc = "remove", ~Free(Blob(k)),
         UNCHANGED <<fileVars, diagnosed>>, dirty' = dirty \cup {k},
         NEW n \in Names, n[2] = k, Goto(k, "sync", n),
         \/ /\ op[k].kind = "clear" /\ ~Windows /\ n = Blob(k)
            /\ dir' = [dir EXCEPT ![n] = NoFile]
         \/ /\ Free(n) /\ n # Blob(k) /\ dir' = Rename(Blob(k), n)
            /\ \/ op[k].kind = "clear" /\ Windows /\ n \in ClearNames(k)
               \/ op[k].kind = "quarantine" /\ n \in QuarantineNames(k)
  PROVE  Inv'
  <1>1. /\ TypeOK /\ op[k].name = Blob(k)
        /\ op[k].kind \notin Saves /\ op[k].value = Absent /\ op[k].value \notin Values
        /\ op[k].begun <= clock
    BY PendingRemoval
  <1>2. /\ Blob(k) \in Names /\ Blob(k)[2] = k
        /\ dir[Blob(k)] # NoFile => dir[Blob(k)].whole
        /\ dir'[Blob(k)] = NoFile => Content(k)' = Absent
    BY BlobFacts
  <1>3. dir[Blob(k)] # NoFile
    BY <1>2, FileFacts
  <1>4. "sync" \in Pcs
    BY DEF Pcs
  <1>5. /\ op'[k] # Idle /\ op'[k].pc = "sync" /\ op'[k].name = n
        /\ op'[k].kind = op[k].kind /\ op'[k].value = op[k].value
        /\ op'[k].begun = op[k].begun
    BY <1>1, <1>4, GotoFacts
  <1>6. /\ dir' \in [Names -> File \cup {NoFile}]
        /\ \A m \in Names \ {n, Blob(k)} : dir'[m] = dir[m]
        /\ \A m \in Names : dir'[m] # NoFile => dir'[m].mtime + behind >= dir'[m].begun
        /\ dir'[Blob(k)] = NoFile
        /\ n # Blob(k) => dir'[n] = dir[Blob(k)]
    <2>1. CASE dir' = [dir EXCEPT ![n] = NoFile] /\ n = Blob(k)
      BY <2>1, SetFile
    <2>2. CASE n # Blob(k) /\ dir' = Rename(Blob(k), n)
      BY <1>2, <2>2, RenameFile
    <2> QED
      BY <2>1, <2>2
  <1>7. NameInv(k)'
    BY <1>2, <1>3, <1>5, <1>6 DEF NameInv, Free
  <1>8. KeyInv(k)'
    BY <1>1, <1>2, <1>5, <1>6 DEF KeyInv
  <1>9. n[1] = "quarantine" /\ ~Free(n) => dir'[n] = dir[n]
    BY NameFacts
  <1> QED
    BY <1>1, <1>4, <1>6, <1>7, <1>8, <1>9, GotoStep

(* The blob is removed on Unix, moved aside on Windows.                    *)
LEMMA ClearRemoveStep ==
  ASSUME Inv, NEW k \in Keys, NEW ok \in BOOLEAN, ClearRemove(k, ok)
  PROVE  Inv'
  <1>1. /\ op[k] # Idle /\ op[k].pc = "remove" /\ op[k].kind = "clear"
        /\ UNCHANGED <<fileVars, diagnosed>>
    BY AtRunning DEF ClearRemove
  <1>2. op[k].name = Blob(k) /\ op[k].value = Absent
    BY <1>1, PendingRemoval
  <1>3. CASE Free(Blob(k))
    <2>1. Return(k, IF ok THEN "Ok" ELSE "InspectNamespace") /\ UNCHANGED <<dir, dirty>>
      BY <1>3 DEF ClearRemove
    <2>2. Content(k) = op[k].value
      BY <1>2, <1>3 DEF Content
    <2>3. CASE ok
      BY <1>1, <1>2, <2>1, <2>2, <2>3, QuietReturn DEF Conclusion
    <2>4. CASE ~ok
      BY <1>1, <2>1, <2>4, QuietError
    <2> QED
      BY <2>3, <2>4
  <1>4. CASE ~ok /\ ~Free(Blob(k))
    <2>1. Return(k, "RemoveBlob") /\ UNCHANGED <<dir, dirty>>
      BY <1>4 DEF ClearRemove
    <2> QED
      BY <1>1, <2>1, QuietError
  <1>5. CASE ok /\ ~Free(Blob(k))
    <2>1. /\ dirty' = dirty \cup {k}
          /\ \/ /\ ~Windows
                /\ dir' = [dir EXCEPT ![Blob(k)] = NoFile]
                /\ Goto(k, "sync", Blob(k))
             \/ /\ Windows
                /\ \E i \in Ids :
                     /\ Free(Name("clear", k, i))
                     /\ dir' = Rename(Blob(k), Name("clear", k, i))
                     /\ Goto(k, "sync", Name("clear", k, i))
      BY <1>5 DEF ClearRemove
    <2>2. Blob(k) \in Names /\ Blob(k)[1] = "blob" /\ Blob(k)[2] = k
      BY NameFacts
    <2>3. CASE ~Windows
      BY <1>1, <1>5, <2>1, <2>2, <2>3, BlobRemoved
    <2>4. CASE Windows
      <3>1. PICK i \in Ids : /\ Free(Name("clear", k, i))
                             /\ dir' = Rename(Blob(k), Name("clear", k, i))
                             /\ Goto(k, "sync", Name("clear", k, i))
        BY <2>1, <2>4
      <3>2. /\ Name("clear", k, i) \in ClearNames(k) /\ Name("clear", k, i) \in Names
            /\ Name("clear", k, i)[2] = k /\ Name("clear", k, i) # Blob(k)
        BY <2>2, NameFacts
      <3> QED
        BY <1>1, <1>5, <2>1, <2>4, <3>1, <3>2, BlobRemoved
    <2> QED
      BY <2>3, <2>4
  <1> QED
    BY <1>3, <1>4, <1>5

(* The blob is moved to a quarantine name.                                 *)
LEMMA QuarantineStep ==
  ASSUME Inv, NEW k \in Keys, NEW ok \in BOOLEAN, Quarantine(k, ok)
  PROVE  Inv'
  <1>1. /\ op[k] # Idle /\ op[k].pc = "remove" /\ op[k].kind = "quarantine"
        /\ UNCHANGED <<fileVars, diagnosed>>
    BY AtRunning DEF Quarantine
  <1>2. CASE Free(Blob(k))
    <2>1. /\ Return(k, IF ok THEN "QuarantineSourceMissing" ELSE "InspectNamespace")
          /\ UNCHANGED <<dir, dirty>>
      BY <1>2 DEF Quarantine
    <2>2. Content(k) = Absent
      BY <1>2 DEF Content
    <2>3. CASE ok
      BY <1>1, <2>1, <2>2, <2>3, QuietReturn DEF Conclusion
    <2>4. CASE ~ok
      BY <1>1, <2>1, <2>4, QuietError
    <2> QED
      BY <2>3, <2>4
  <1>3. CASE ~ok /\ ~Free(Blob(k))
    <2>1. Return(k, "QuarantineCommit") /\ UNCHANGED <<dir, dirty>>
      BY <1>3 DEF Quarantine
    <2> QED
      BY <1>1, <2>1, QuietError
  <1>4. CASE ok /\ ~Free(Blob(k))
    <2>1. PICK i \in Ids : /\ QuarantineFree(Name("quarantine", k, i))
                           /\ dir' = Rename(Blob(k), Name("quarantine", k, i))
                           /\ dirty' = dirty \cup {k}
                           /\ Goto(k, "sync", Name("quarantine", k, i))
      BY <1>4 DEF Quarantine
    <2> DEFINE n == Name("quarantine", k, i)
    <2>2. n \in QuarantineNames(k) /\ n \in Names /\ n[2] = k /\ n # Blob(k)
      BY NameFacts
    <2>3. Free(n)
      BY <2>1 DEF QuarantineFree
    <2> HIDE DEF n
    <2>4. /\ dir' = Rename(Blob(k), n) /\ dirty' = dirty \cup {k}
          /\ Goto(k, "sync", n)
      BY <2>1 DEF n
    <2> QED
      BY <1>1, <1>4, <2>2, <2>3, <2>4, BlobRemoved
  <1> QED
    BY <1>2, <1>3, <1>4

(* An operation that has changed the canonical name: the key is as it is   *)
(* to be.                                                                  *)
LEMMA Changed ==
  ASSUME Inv, NEW k \in Keys, op[k] # Idle, op[k].pc \in {"sync", "delete"}
  PROVE  /\ TypeOK /\ NameInv(k) /\ KeyInv(k) /\ Content(k) = op[k].value
         /\ op[k].name \in Names /\ op[k].name[2] = k /\ op[k].begun <= clock
         /\ dir \in [Names -> File \cup {NoFile}]
         /\ \A m \in Names : dir[m] # NoFile => dir[m].mtime + behind >= dir[m].begun
         /\ dir[Blob(k)] # NoFile => dir[Blob(k)].whole
         /\ dir' = dir => Content(k)' = Content(k)
         /\ diagnosed \subseteq (Names \X Values)
  <1>1. TypeOK /\ NameInv(k) /\ KeyInv(k) /\ op[k].begun <= clock
    BY OpInv
  <1>2. /\ dir \in [Names -> File \cup {NoFile}]
        /\ \A m \in Names : dir[m] # NoFile => dir[m].mtime + behind >= dir[m].begun
        /\ diagnosed \subseteq (Names \X Values)
    BY DEF Inv, TypeOK, FileInv, AgeInv, Free
  <1> QED
    BY <1>1, <1>2, OwnName, BlobFacts DEF KeyInv

(* The namespace directory is synchronized, or that fails.                 *)
LEMMA SyncNamespaceStep ==
  ASSUME Inv, NEW k \in Keys, NEW ok \in BOOLEAN, SyncNamespace(k, ok)
  PROVE  Inv'
  <1> DEFINE n == op[k].name
             r == IF ok THEN "Ok" ELSE
                  IF op[k].kind = "quarantine" THEN "QuarantineNamespaceSync"
                  ELSE "SyncNamespaceDirectory"
  <1>1. op[k] # Idle /\ op[k].pc = "sync" /\ UNCHANGED <<fileVars, dir>>
    BY AtRunning DEF SyncNamespace
  <1>2. /\ TypeOK /\ NameInv(k) /\ KeyInv(k) /\ Content(k) = op[k].value
        /\ n \in Names /\ n[2] = k /\ op[k].begun <= clock
        /\ dir \in [Names -> File \cup {NoFile}]
        /\ \A m \in Names : dir[m] # NoFile => dir[m].mtime + behind >= dir[m].begun
        /\ dir[Blob(k)] # NoFile => dir[Blob(k)].whole
        /\ Content(k)' = Content(k)
        /\ diagnosed \subseteq (Names \X Values)
    BY <1>1, Changed
  <1>3. \/ op[k].kind \in Saves /\ n \in SaveNames(k) /\ Free(n)
        \/ op[k].kind = "clear" /\ ~Windows /\ n = Blob(k)
        \/ op[k].kind = "clear" /\ Windows /\ n \in ClearNames(k)
        \/ /\ op[k].kind = "quarantine"
           /\ n \in QuarantineNames(k) /\ ~Free(n) /\ dir[n].whole
    BY <1>1, <1>2 DEF NameInv
  <1>4. dirty' = IF ok THEN {} ELSE dirty
    BY DEF SyncNamespace, AfterSync
  <1>5. CASE ok /\ NeedsDelete(k)
    <2>1. /\ Goto(k, "delete", n) /\ "delete" \in Pcs
          /\ op[k].kind = "clear" /\ Windows /\ diagnosed' = diagnosed
      BY <1>5 DEF SyncNamespace, NeedsDelete, Pcs
    <2>2. /\ op'[k] # Idle /\ op'[k].pc = "delete" /\ op'[k].name = n
          /\ op'[k].kind = op[k].kind /\ op'[k].value = op[k].value
          /\ op'[k].begun = op[k].begun
      BY <1>1, <1>2, <2>1, GotoFacts
    <2>3. n \in ClearNames(k) /\ n[1] = "clear"
      BY <1>3, <2>1, NameFacts DEF Saves
    <2>4. NameInv(k)'
      BY <2>2, <2>3 DEF NameInv
    <2>5. KeyInv(k)'
      BY <1>1, <1>2, <2>1, <2>2 DEF KeyInv
    <2> QED
      BY <1>1, <1>2, <1>4, <2>1, <2>3, <2>4, <2>5, GotoStep
  <1>6. CASE ~(ok /\ NeedsDelete(k))
    <2>1. Return(k, r)
      BY <1>6 DEF SyncNamespace
    <2>2. Content(k)' \in Conclusion(k, r)
      BY <1>2 DEF Conclusion
    <2>3. r = "Ok" /\ OwnedTemporary(n) => dir'[n] = NoFile
      <3>1. ~OwnedTemporary(Blob(k))
        BY BlobFacts
      <3> QED
        BY <1>1, <1>3, <1>6, <3>1, NameFacts DEF NeedsDelete, Free
    <2>4. r = "Ok" => k \notin dirty'
      BY <1>4
    <2>5. /\ diagnosed' \subseteq (Names \X Values)
          /\ \A d \in diagnosed' : d \in diagnosed \/ Diagnosed(d)
      <3>1. CASE op[k].kind # "quarantine"
        BY <1>2, <3>1 DEF SyncNamespace
      <3>2. CASE op[k].kind = "quarantine"
        <4>1. /\ n \in QuarantineNames(k) /\ ~Free(n) /\ dir[n].whole
              /\ n[1] = "quarantine" /\ dir[n] # NoFile /\ dir[n].value \in Values
          BY <1>2, <1>3, <3>2, NameFacts, FileFacts DEF Saves
        <4>2. diagnosed' = diagnosed \cup {<<n, dir[n].value>>}
          BY <3>2 DEF SyncNamespace
        <4>3. Diagnosed(<<n, dir[n].value>>)
          BY <1>1, <4>1 DEF Diagnosed
        <4> QED
          BY <1>2, <4>1, <4>2, <4>3
      <3> QED
        BY <3>1, <3>2
    <2> HIDE DEF r
    <2> QED
      BY <1>1, <1>2, <1>4, <2>1, <2>2, <2>3, <2>4, <2>5, ReturnStep
  <1> QED
    BY <1>5, <1>6

(* The blob a clear moved aside is deleted, or that fails.                 *)
LEMMA DeleteStagingStep ==
  ASSUME Inv, NEW k \in Keys, NEW ok \in BOOLEAN, DeleteStaging(k, ok)
  PROVE  Inv'
  <1> DEFINE n == op[k].name
             r == IF ok THEN "Ok" ELSE "RemoveTemporaryFile"
  <1>1. op[k] # Idle /\ op[k].pc = "delete" /\ UNCHANGED <<fileVars, dirty, diagnosed>>
    BY AtRunning DEF DeleteStaging
  <1>2. /\ NameInv(k) /\ KeyInv(k) /\ Content(k) = op[k].value
        /\ n \in Names
        /\ dir \in [Names -> File \cup {NoFile}]
        /\ \A m \in Names : dir[m] # NoFile => dir[m].mtime + behind >= dir[m].begun
        /\ dir[Blob(k)] # NoFile => dir[Blob(k)].whole
        /\ diagnosed \subseteq (Names \X Values)
    BY <1>1, Changed
  <1>3. n \in ClearNames(k) /\ op[k].kind = "clear"
    BY <1>1, <1>2 DEF NameInv, KeyInv
  <1>4. n[1] = "clear" /\ n # Blob(k) /\ Blob(k) \in Names
    BY <1>3, NameFacts
  <1>5. /\ dir' \in [Names -> File \cup {NoFile}]
        /\ \A m \in Names \ {n} : dir'[m] = dir[m]
        /\ \A m \in Names : dir'[m] # NoFile => dir'[m].mtime + behind >= dir'[m].begun
        /\ ok => dir'[n] = NoFile
    <2>1. CASE ok
      BY <1>2, <2>1, SetFile DEF DeleteStaging
    <2>2. CASE ~ok
      BY <1>2, <2>2 DEF DeleteStaging
    <2> QED
      BY <2>1, <2>2
  <1>6. dir'[Blob(k)] = dir[Blob(k)] /\ Content(k)' = Content(k)
    BY <1>4, <1>5, BlobFacts
  <1>7. Return(k, r) /\ Content(k)' \in Conclusion(k, r)
    BY <1>2, <1>6 DEF DeleteStaging, Conclusion
  <1> HIDE DEF r
  <1> QED
    BY <1>1, <1>2, <1>3, <1>4, <1>5, <1>6, <1>7, ReturnStep DEF r

(* A step that changes no file and no operation, while time passes or the  *)
(* system's clock is set back.                                             *)
LEMMA NoFileStep ==
  ASSUME Inv, TypeOK', CleanupInv', clock' >= clock, behind' >= behind,
         UNCHANGED <<dir, dirty, op, believed, succeeded, diagnosed, debris>>
  PROVE  Inv'
  <1>1. \A k \in Keys : NameInv(k)'
    BY DEF Inv, FileInv, NameInv, Free
  <1>2. ASSUME NEW k \in Keys PROVE KeyInv(k)'
    <2>1. KeyInv(k) /\ Content(k)' = Content(k)
      BY DEF Inv, FileInv, Content, Free
    <2>2. clock \in Nat /\ clock' \in Nat
      BY DEF Inv, TypeOK
    <2>3. op[k] # Idle => op[k].begun \in 0..MaxClock
      BY OpFacts DEF Inv
    <2> QED
      BY <2>1, <2>2, <2>3 DEF KeyInv
  <1>3. AgeInv'
    <2> SUFFICES ASSUME NEW n \in Names, dir[n] # NoFile
                 PROVE  dir[n].mtime + behind' >= dir[n].begun
      BY DEF AgeInv, Free
    <2>1. dir[n].mtime \in Int /\ dir[n].begun \in Int /\ behind \in Int /\ behind' \in Int
      BY DEF Inv, TypeOK, File, WallTimes
    <2>2. dir[n].mtime + behind >= dir[n].begun
      BY DEF Inv, FileInv, AgeInv, Free
    <2> QED
      BY <2>1, <2>2
  <1>4. DiagnosedInv' /\ CanonicalComplete' /\ QuarantineKeepsBlobs'
    BY DEF Inv, FileInv, DiagnosedInv, CanonicalComplete, QuarantineKeepsBlobs, Free
  <1>5. SuccessLeavesNoStaging' /\ CommitIsSynced'
    BY DEF Inv, FileInv, SuccessLeavesNoStaging, CommitIsSynced, Free, OwnedTemporary
  <1> QED
    BY <1>1, <1>2, <1>3, <1>4, <1>5 DEF Inv, FileInv

(* Opening the store touches no file of the namespace.                     *)
LEMMA OpenStoreStep ==
  ASSUME Inv, OpenStore \/ \E ok \in BOOLEAN : SyncRoot(ok)
  PROVE  Inv'
  <1>1. UNCHANGED <<dir, dirty, op, cleanup, clock, behind, believed, succeeded,
                    diagnosed, debris>>
    BY DEF OpenStore, SyncRoot
  <1>2. namespace' \in BOOLEAN /\ rootDirty' \in BOOLEAN
    BY Zenon DEF Inv, TypeOK, OpenStore, SyncRoot
  <1>3. store' \in {"closed", "creating", "open"}
    BY DEF OpenStore, SyncRoot
  <1>4. TypeOK'
    BY <1>1, <1>2, <1>3 DEF Inv, TypeOK
  <1>5. CleanupInv'
    BY <1>1 DEF Inv, FileInv, CleanupInv, Free, OwnedTemporary
  <1>6. clock \in Nat /\ behind \in Nat
    BY WallFacts DEF Inv
  <1> QED
    BY <1>1, <1>4, <1>5, <1>6, NoFileStep

(* A worker starts an operation.                                           *)
LEMMA BeginStep ==
  ASSUME Inv, NEW k \in Keys, NEW kind \in Kinds, NEW v \in Values \cup {Absent},
         Begin(k, kind, v)
  PROVE  Inv'
  <1> DEFINE o == [pc |-> CASE kind \in {"save", "saveStream"} -> "open"
                            [] kind = "clear" /\ Windows       -> "refresh"
                            [] OTHER                           -> "remove",
                   kind |-> kind, value |-> v, name |-> Blob(k), begun |-> clock]
  <1>1. /\ op[k].pc = "idle" /\ ~cleanup.running
        /\ kind \in Saves <=> v \in Values
        /\ op' = [op EXCEPT ![k] = o]
        /\ UNCHANGED <<fileVars, dir, dirty, believed, succeeded, diagnosed, debris>>
    BY DEF Begin, At, Saves
  <1>2. /\ o.pc \in {"open", "refresh", "remove"} /\ o.pc \in Pcs
        /\ o.pc = "open" <=> kind \in Saves
        /\ o.pc = "refresh" => kind = "clear"
        /\ o.pc = "remove" => kind \in {"clear", "quarantine"}
        /\ o.kind = kind /\ o.value = v /\ o.name = Blob(k) /\ o.begun = clock
    BY DEF Pcs, Saves, Kinds
  <1>3. o \in Op
    BY <1>2, NameFacts DEF Op, Inv, TypeOK
  <1> HIDE DEF o
  <1>4. /\ op' \in [Keys -> Op \cup {Idle}] /\ op'[k] = o
        /\ \A j \in Keys \ {k} : op'[j] = op[j]
    BY <1>1, <1>3 DEF Inv, TypeOK
  <1>5. o # Idle /\ op[k] = Idle
    <2>1. o # Idle
      BY <1>2 DEF Idle
    <2>2. op[k] = Idle
      BY <1>1, OpFacts DEF Inv
    <2> QED
      BY <2>1, <2>2
  <1>6. TypeOK'
    BY <1>1, <1>4 DEF Inv, TypeOK
  <1>7. NameInv(k)'
    BY <1>2, <1>4 DEF NameInv
  <1>8. KeyInv(k)'
    <2>1. Content(k) \in believed[k]
      BY <1>1 DEF Inv, FileInv, KeyInv
    <2>2. Content(k)' = Content(k)
      BY <1>1 DEF Content, Free
    <2> QED
      BY <1>1, <1>2, <1>4, <1>6, <2>1, <2>2 DEF KeyInv, TypeOK
  <1>9. ASSUME NEW j \in Keys \ {k} PROVE NameInv(j)' /\ KeyInv(j)'
    BY <1>1, <1>4, OtherKey
  <1>10. AgeInv' /\ DiagnosedInv' /\ CanonicalComplete' /\ QuarantineKeepsBlobs'
    BY <1>1 DEF Inv, FileInv, AgeInv, DiagnosedInv, CanonicalComplete,
                QuarantineKeepsBlobs, Free
  <1>11. CleanupInv'
    BY <1>1 DEF CleanupInv
  <1>12. SuccessLeavesNoStaging'
    BY <1>1, <1>4, <1>5 DEF Inv, FileInv, SuccessLeavesNoStaging, Free, OwnedTemporary
  <1>13. CommitIsSynced'
    BY <1>1, <1>4, <1>5 DEF Inv, FileInv, CommitIsSynced
  <1> QED
    BY <1>6, <1>7, <1>8, <1>9, <1>10, <1>11, <1>12, <1>13 DEF Inv, FileInv

(* A load tells its caller the state of the key.                           *)
LEMMA LoadStep ==
  ASSUME Inv, NEW k \in Keys, Load(k)
  PROVE  Inv'
  <1>1. /\ op[k].pc = "idle"
        /\ believed' = [believed EXCEPT ![k] = {Content(k)}]
        /\ succeeded' = [succeeded EXCEPT ![k] = "none"]
        /\ UNCHANGED <<fileVars, dir, dirty, op, diagnosed, debris>>
    BY DEF Load, At
  <1>2. Content(k) \in Values \cup {Absent} /\ op[k] = Idle
    BY <1>1, NameFacts, FileFacts, OpFacts DEF Content, Inv
  <1>3. TypeOK'
    BY <1>1, <1>2 DEF Inv, TypeOK
  <1>4. \A j \in Keys : NameInv(j)'
    BY <1>1 DEF Inv, FileInv, NameInv, Free
  <1>5. ASSUME NEW j \in Keys PROVE KeyInv(j)'
    <2>1. KeyInv(j) /\ Content(j)' = Content(j)
      BY <1>1 DEF Inv, FileInv, Content, Free
    <2>2. CASE j = k
      BY <1>1, <1>2, <2>1, <2>2 DEF KeyInv, Inv, TypeOK
    <2>3. CASE j # k
      BY <1>1, <2>1, <2>3 DEF KeyInv, Inv, TypeOK
    <2> QED
      BY <2>2, <2>3
  <1>6. AgeInv' /\ DiagnosedInv' /\ CanonicalComplete' /\ QuarantineKeepsBlobs'
    BY <1>1 DEF Inv, FileInv, AgeInv, DiagnosedInv, CanonicalComplete,
                QuarantineKeepsBlobs, Free
  <1>7. CleanupInv' /\ SuccessLeavesNoStaging'
    BY <1>1 DEF Inv, FileInv, CleanupInv, SuccessLeavesNoStaging, Free, OwnedTemporary
  <1>8. CommitIsSynced'
    BY <1>1 DEF Inv, TypeOK, FileInv, CommitIsSynced
  <1> QED
    BY <1>3, <1>4, <1>5, <1>6, <1>7, <1>8 DEF Inv, FileInv

(* Cleanup begins: the age it will compute of a file is never above the    *)
(* true one.                                                               *)
LEMMA CleanupBeginStep ==
  ASSUME Inv, CleanupBegin
  PROVE  Inv'
  <1> DEFINE todo == {n \in Names : ~Free(n) /\ OwnedTemporary(n)}
  <1>1. /\ \A k \in Keys : op[k] = Idle
        /\ cleanup' = [running |-> TRUE, now |-> Wall, todo |-> todo]
        /\ UNCHANGED <<store, namespace, rootDirty, dir, dirty, op, clock, behind,
                       believed, succeeded, diagnosed, debris>>
    BY DEF CleanupBegin
  <1>2. /\ Wall \in WallTimes /\ Wall + behind = clock /\ clock \in Nat /\ behind \in Nat
    BY WallFacts DEF Inv
  <1>3. TypeOK'
    BY <1>1, <1>2 DEF Inv, TypeOK
  <1>4. ASSUME NEW n \in todo
        PROVE  OwnedTemporary(n) /\ Wall - dir[n].mtime <= clock - dir[n].begun
    <2>1. dir[n] \in File /\ dir[n].mtime + behind >= dir[n].begun
      BY FileFacts
    <2>2. dir[n].mtime \in Int /\ dir[n].begun \in Int
      BY <2>1 DEF File, WallTimes
    <2>3. Wall \in Int
      BY <1>2 DEF WallTimes
    <2> QED
      BY <1>2, <2>1, <2>2, <2>3
  <1>5. cleanup'.todo = todo /\ cleanup'.now = Wall
    BY <1>1
  <1> HIDE DEF todo
  <1>6. CleanupInv'
    BY <1>1, <1>4, <1>5 DEF CleanupInv, Free, OwnedTemporary
  <1> QED
    BY <1>1, <1>2, <1>3, <1>6, NoFileStep

(* The record of a running cleanup.                                        *)
LEMMA CleanupFacts ==
  ASSUME TypeOK, cleanup.running
  PROVE  /\ cleanup \in [running : {TRUE}, todo : SUBSET Names, now : WallTimes]
         /\ cleanup.todo \subseteq Names /\ cleanup.now \in Int
  <1>1. ~NoCleanup.running
    BY DEF NoCleanup
  <1>2. cleanup # NoCleanup
    BY <1>1, Zenon
  <1>3. cleanup \in {NoCleanup} \cup
          [running : {TRUE}, todo : SUBSET Names, now : WallTimes]
    BY DEF TypeOK
  <1>4. cleanup \in [running : {TRUE}, todo : SUBSET Names, now : WallTimes]
    BY <1>2, <1>3, Zenon
  <1>5. cleanup.todo \in SUBSET Names /\ cleanup.now \in WallTimes
    BY <1>4, Zenon
  <1>6. \A t \in WallTimes : t \in Int
    BY DEF WallTimes
  <1> QED
    BY <1>4, <1>5, <1>6, Zenon

(* Cleanup looks at one staging name, and no operation runs meanwhile.     *)
LEMMA CleanupEntryStep ==
  ASSUME Inv, NEW n \in Names, NEW ok \in BOOLEAN, CleanupEntry(n, ok)
  PROVE  Inv'
  <1>1. /\ cleanup.running /\ n \in cleanup.todo
        /\ cleanup' = [cleanup EXCEPT !.todo = @ \ {n}]
        /\ UNCHANGED <<store, namespace, rootDirty, dirty, op, clock, behind, believed,
                       succeeded, diagnosed, debris>>
    BY DEF CleanupEntry
  <1>2. /\ \A k \in Keys : op[k] = Idle
        /\ \A m \in cleanup.todo :
             /\ OwnedTemporary(m)
             /\ ~Free(m) => cleanup.now - dir[m].mtime <= clock - dir[m].begun
    BY <1>1 DEF Inv, FileInv, CleanupInv
  <1>3. cleanup \in [running : {TRUE}, todo : SUBSET Names, now : WallTimes]
    BY <1>1, CleanupFacts DEF Inv
  <1>4. /\ cleanup' \in [running : {TRUE}, todo : SUBSET Names, now : WallTimes]
        /\ cleanup'.todo \subseteq cleanup.todo /\ cleanup'.now = cleanup.now
        /\ cleanup'.todo \subseteq Names
    BY <1>1, <1>3
  <1>5. /\ dir' \in [Names -> File \cup {NoFile}]
        /\ \A m \in Names \ {n} : dir'[m] = dir[m]
        /\ dir'[n] \in {dir[n], NoFile}
    BY DEF CleanupEntry, Inv, TypeOK
  <1>6. n[1] \notin {"blob", "quarantine"}
    BY <1>1, <1>2 DEF OwnedTemporary
  <1>7. \A k \in Keys : dir'[Blob(k)] = dir[Blob(k)] /\ op[k].pc = "idle"
    BY <1>2, <1>5, <1>6, NameFacts DEF Idle
  <1>8. TypeOK'
    BY <1>1, <1>4, <1>5 DEF Inv, TypeOK
  <1>9. \A k \in Keys : NameInv(k)'
    BY <1>1, <1>7 DEF NameInv
  <1>10. ASSUME NEW k \in Keys PROVE KeyInv(k)'
    <2>1. KeyInv(k) /\ Content(k)' = Content(k)
      BY <1>7 DEF Inv, FileInv, Content, Free
    <2> QED
      BY <1>1, <1>2, <1>7, <2>1 DEF KeyInv
  <1>11. AgeInv'
    BY <1>1, <1>5 DEF Inv, FileInv, AgeInv, Free
  <1>12. DiagnosedInv' /\ QuarantineKeepsBlobs'
    <2>1. \A d \in diagnosed : d[1] \in Names /\ d[1] # n
      BY <1>6 DEF Inv, TypeOK, FileInv, DiagnosedInv
    <2> QED
      BY <1>1, <1>5, <2>1 DEF Inv, FileInv, DiagnosedInv, QuarantineKeepsBlobs, Free
  <1>13. CanonicalComplete'
    BY <1>7 DEF Inv, FileInv, CanonicalComplete, Free
  <1>14. CleanupInv'
    <2> SUFFICES ASSUME NEW m \in cleanup'.todo
                 PROVE  /\ OwnedTemporary(m)
                        /\ dir'[m] # NoFile =>
                             cleanup'.now - dir'[m].mtime <= clock' - dir'[m].begun
      BY <1>1, <1>2 DEF CleanupInv, Free, OwnedTemporary
    <2> QED
      BY <1>1, <1>2, <1>4, <1>5 DEF Free
  <1>15. SuccessLeavesNoStaging'
    BY <1>1, <1>5 DEF Inv, FileInv, SuccessLeavesNoStaging, Free, OwnedTemporary
  <1>16. CommitIsSynced'
    BY <1>1 DEF Inv, FileInv, CommitIsSynced
  <1> QED
    BY <1>8, <1>9, <1>10, <1>11, <1>12, <1>13, <1>14, <1>15, <1>16 DEF Inv, FileInv

(* Cleanup ends, time passes, or the system's clock is set back.           *)
LEMMA TimeStep ==
  ASSUME Inv, CleanupEnd \/ Tick \/ SetBack \/ UNCHANGED vars
  PROVE  Inv'
  <1>1. UNCHANGED <<store, namespace, rootDirty, dir, dirty, op, believed, succeeded,
                    diagnosed, debris>>
    BY DEF CleanupEnd, Tick, SetBack, vars
  <1>2. /\ clock \in Nat /\ behind \in Nat
        /\ clock' \in 0..MaxClock /\ clock' >= clock
        /\ behind' \in 0..MaxBack /\ behind' >= behind
    BY DEF Inv, TypeOK, CleanupEnd, Tick, SetBack, vars
  <1>3. cleanup' \in {NoCleanup, cleanup}
    BY DEF CleanupEnd, Tick, SetBack, vars
  <1>4. TypeOK'
    BY <1>1, <1>2, <1>3 DEF Inv, TypeOK
  <1>5. CASE cleanup' = NoCleanup
    <2>1. ~cleanup'.running
      BY <1>5 DEF NoCleanup
    <2>2. CleanupInv'
      BY <2>1 DEF CleanupInv
    <2> QED
      BY <1>1, <1>2, <1>4, <2>2, NoFileStep
  <1>6. CASE cleanup' = cleanup /\ cleanup.running
    <2>1. /\ \A k \in Keys : op[k] = Idle
          /\ \A n \in cleanup.todo :
               /\ OwnedTemporary(n)
               /\ ~Free(n) => cleanup.now - dir[n].mtime <= clock - dir[n].begun
      BY <1>6 DEF Inv, FileInv, CleanupInv
    <2>2. cleanup.todo \subseteq Names /\ cleanup.now \in Int
      BY <1>6, CleanupFacts DEF Inv
    <2>3. ASSUME NEW n \in cleanup.todo, ~Free(n)
          PROVE  cleanup.now - dir[n].mtime <= clock' - dir[n].begun
      <3>1. dir[n] \in File
        BY <2>2, <2>3, FileFacts
      <3>2. dir[n].mtime \in Int /\ dir[n].begun \in Int
        BY <3>1 DEF File, WallTimes
      <3>3. cleanup.now - dir[n].mtime <= clock - dir[n].begun
        BY <2>1, <2>3
      <3> QED
        BY <1>2, <2>2, <3>2, <3>3
    <2>4. CleanupInv'
      BY <1>1, <1>6, <2>1, <2>3 DEF CleanupInv, Free, OwnedTemporary
    <2> QED
      BY <1>1, <1>2, <1>4, <2>4, NoFileStep
  <1>7. CASE cleanup' = cleanup /\ ~cleanup.running
    <2>1. CleanupInv'
      BY <1>7 DEF CleanupInv
    <2> QED
      BY <1>1, <1>2, <1>4, <2>1, NoFileStep
  <1> QED
    BY <1>3, <1>5, <1>6, <1>7

(* The process is killed: callers of running operations must reckon with   *)
(* either state, and their staging files are debris.                       *)
LEMMA CrashStep ==
  ASSUME Inv, Crash
  PROVE  Inv'
  <1>1. /\ store' = "closed" /\ cleanup' = NoCleanup
        /\ op' = [k \in Keys |-> Idle]
        /\ believed' = [k \in Keys |-> IF op[k] # Idle THEN believed[k] \cup {op[k].value}
                                       ELSE believed[k]]
        /\ succeeded' = [k \in Keys |-> IF op[k] # Idle THEN "none" ELSE succeeded[k]]
        /\ debris' = debris \cup UNION {Staging(op[k]) : k \in {k \in Keys : op[k] # Idle}}
        /\ UNCHANGED <<namespace, rootDirty, dir, dirty, clock, behind, diagnosed>>
    BY DEF Crash, Killed
  <1>2. ASSUME NEW k \in Keys, op[k] # Idle
        PROVE  /\ op[k].value \in Values \cup {Absent}
               /\ Staging(op[k]) \subseteq Names
               /\ OwnedTemporary(op[k].name) => op[k].name \in Staging(op[k])
    BY <1>2, OpFacts, StagingFacts DEF Inv
  <1>3. TypeOK'
    <2>1. believed' \in [Keys -> SUBSET (Values \cup {Absent})]
      BY <1>1, <1>2 DEF Inv, TypeOK
    <2>2. succeeded' \in [Keys -> Kinds \cup {"none"}] /\ op' \in [Keys -> Op \cup {Idle}]
      BY <1>1 DEF Inv, TypeOK
    <2>3. debris' \subseteq Names
      BY <1>1, <1>2 DEF Inv, TypeOK
    <2> QED
      BY <1>1, <2>1, <2>2, <2>3 DEF Inv, TypeOK
  <1>4. \A k \in Keys : op'[k] = Idle /\ op'[k].pc = "idle"
    BY <1>1 DEF Idle
  <1>5. \A k \in Keys : NameInv(k)'
    BY <1>4 DEF NameInv
  <1>6. ASSUME NEW k \in Keys PROVE KeyInv(k)'
    <2>1. KeyInv(k) /\ Content(k)' = Content(k)
      BY <1>1 DEF Inv, FileInv, Content, Free
    <2>2. op[k] = Idle => Content(k) \in believed[k]
      BY <2>1 DEF KeyInv, Idle
    <2>3. op[k] # Idle => Content(k) \in believed[k] \cup {op[k].value}
      BY <2>1 DEF KeyInv
    <2>4. Content(k)' \in believed'[k]
      BY <1>1, <2>1, <2>2, <2>3
    <2> QED
      BY <1>4, <2>4 DEF KeyInv
  <1>7. AgeInv' /\ DiagnosedInv' /\ CanonicalComplete' /\ QuarantineKeepsBlobs'
    BY <1>1 DEF Inv, FileInv, AgeInv, DiagnosedInv, CanonicalComplete,
                QuarantineKeepsBlobs, Free
  <1>8. CleanupInv'
    BY <1>1 DEF CleanupInv, NoCleanup
  <1>9. SuccessLeavesNoStaging'
    <2> SUFFICES ASSUME NEW n \in Names, OwnedTemporary(n), ~Free(n)
                 PROVE  n \in debris'
      BY <1>1 DEF SuccessLeavesNoStaging, Free, OwnedTemporary
    <2>1. CASE n \in debris
      BY <1>1, <2>1
    <2>2. CASE n \notin debris
      <3>1. PICK k \in Keys : op[k] # Idle /\ op[k].name = n
        BY <2>2 DEF Inv, FileInv, SuccessLeavesNoStaging
      <3>2. n \in Staging(op[k])
        BY <1>2, <3>1
      <3> QED
        BY <1>1, <3>1, <3>2
    <2> QED
      BY <2>1, <2>2
  <1>10. CommitIsSynced'
    BY <1>1 DEF Inv, FileInv, CommitIsSynced
  <1> QED
    BY <1>3, <1>5, <1>6, <1>7, <1>8, <1>9, <1>10 DEF Inv, FileInv

(* An empty directory satisfies the invariant.                             *)
LEMMA InitInv == Init => Inv
  <1> SUFFICES ASSUME Init PROVE Inv
    OBVIOUS
  <1>1. namespace \in BOOLEAN /\ rootDirty \in BOOLEAN
    BY Zenon DEF Init
  <1>2. TypeOK
    BY <1>1 DEF Init, TypeOK
  <1>3. (\A n \in Names : Free(n)) /\ \A k \in Keys : op[k] = Idle /\ op[k].pc = "idle"
    BY DEF Init, Free, Idle
  <1>4. ASSUME NEW k \in Keys PROVE NameInv(k) /\ KeyInv(k)
    <2>1. Content(k) = Absent /\ believed[k] = {Absent}
      BY <1>3, NameFacts DEF Init, Content
    <2> QED
      BY <1>3, <2>1 DEF NameInv, KeyInv
  <1>5. AgeInv /\ SuccessLeavesNoStaging /\ CommitIsSynced
    BY <1>3 DEF Init, AgeInv, SuccessLeavesNoStaging, CommitIsSynced
  <1>6. DiagnosedInv /\ QuarantineKeepsBlobs
    BY DEF Init, DiagnosedInv, QuarantineKeepsBlobs
  <1>7. CleanupInv
    BY DEF Init, CleanupInv, NoCleanup
  <1>8. CanonicalComplete
    BY <1>3, NameFacts DEF CanonicalComplete
  <1> QED
    BY <1>2, <1>4, <1>5, <1>6, <1>7, <1>8 DEF Inv, FileInv

(* Every step preserves the invariant.                                     *)
LEMMA NextInv == Inv /\ [Next]_vars => Inv'
  <1> SUFFICES ASSUME Inv, [Next]_vars PROVE Inv'
    OBVIOUS
  <1>1. CASE OpenStore \/ \E ok \in BOOLEAN : SyncRoot(ok)
    BY <1>1, OpenStoreStep
  <1>2. CASE \E k \in Keys, kind \in Kinds, v \in Values \cup {Absent} : Begin(k, kind, v)
    BY <1>2, BeginStep
  <1>3. CASE \E k \in Keys, ok \in BOOLEAN : Step(k, ok)
    BY <1>3, SaveOpenStep, SaveWriteStep, UnixCommitStep, WindowsMoveStep,
       ClearRefreshStep, ClearRemoveStep, QuarantineStep, SyncNamespaceStep,
       DeleteStagingStep DEF Step
  <1>4. CASE \E k \in Keys : Load(k)
    BY <1>4, LoadStep
  <1>5. CASE CleanupBegin
    BY <1>5, CleanupBeginStep
  <1>6. CASE \E n \in Names, ok \in BOOLEAN : CleanupEntry(n, ok)
    BY <1>6, CleanupEntryStep
  <1>7. CASE CleanupEnd \/ Tick \/ SetBack \/ UNCHANGED vars
    BY <1>7, TimeStep
  <1>8. CASE Crash
    BY <1>8, CrashStep
  <1> QED
    BY <1>1, <1>2, <1>3, <1>4, <1>5, <1>6, <1>7, <1>8 DEF Next

-----------------------------------------------------------------------------
(* The theorems, for any number of keys, payloads and identifiers, on Unix *)
(* and on Windows, whatever fails and wherever the process is killed.      *)

(* The invariant holds in every reachable state: types, what every running *)
(* operation finds under its name, and what it will report.                *)
THEOREM BlobFilesInvariant == Spec => [](TypeOK /\ FileInv)
  <1>1. Inv <=> TypeOK /\ FileInv
    BY DEF Inv
  <1> QED
    BY <1>1, InitInv, NextInv, PTL DEF Spec

(* A canonical path never holds an incomplete envelope.                    *)
THEOREM CanonicalCompleteCorrect == Spec => []CanonicalComplete
  <1>1. Inv => CanonicalComplete
    BY DEF Inv, FileInv
  <1> QED
    BY <1>1, InitInv, NextInv, PTL DEF Spec

(* The state of a key is one that the results its callers have seen leave  *)
(* open, or the one the running operation is about to make.                *)
THEOREM ResultsTellTheTruthCorrect == Spec => []ResultsTellTheTruth
  <1>1. ASSUME Inv, NEW k \in Keys
        PROVE  Content(k) \in believed[k] \cup (IF op[k] = Idle THEN {} ELSE {op[k].value})
    <2>1. KeyInv(k)
      BY <1>1 DEF Inv, FileInv
    <2>2. op[k].pc \in {"sync", "delete"} => op[k] # Idle
      BY DEF Idle
    <2> QED
      BY <2>1, <2>2 DEF KeyInv
  <1>2. Inv => ResultsTellTheTruth
    BY <1>1 DEF ResultsTellTheTruth
  <1> QED
    BY <1>2, InitInv, NextInv, PTL DEF Spec

(* A blob reported as quarantined stays complete at its diagnostic path.   *)
THEOREM QuarantineKeepsBlobsCorrect == Spec => []QuarantineKeepsBlobs
  <1>1. Inv => QuarantineKeepsBlobs
    BY DEF Inv, FileInv
  <1> QED
    BY <1>1, InitInv, NextInv, PTL DEF Spec

(* An operation that succeeded leaves no staging file.                     *)
THEOREM SuccessLeavesNoStagingCorrect == Spec => []SuccessLeavesNoStaging
  <1>1. Inv => SuccessLeavesNoStaging
    BY DEF Inv, FileInv
  <1> QED
    BY <1>1, InitInv, NextInv, PTL DEF Spec

(* A save or a quarantine that succeeded has been synchronized.            *)
THEOREM CommitIsSyncedCorrect == Spec => []CommitIsSynced
  <1>1. Inv => CommitIsSynced
    BY DEF Inv, FileInv
  <1> QED
    BY <1>1, InitInv, NextInv, PTL DEF Spec

(* What cleanup_stale_temporary_files removes is a staging file whose      *)
(* operation began at least the minimum age ago, also when the system's    *)
(* clock was set back.                                                     *)
SparesTheYoung ==
  \A n \in Names :
    cleanup.running /\ ~Free(n) /\ dir'[n] = NoFile
      => n[1] \in {"save", "clear"} /\ clock - dir[n].begun >= MinAge

(* Cleanup removes no file that is young, canonical or quarantined.        *)
THEOREM CleanupSparesTheYoungCorrect == Spec => CleanupSparesTheYoung
  <1>1. ASSUME Inv, [Next]_vars, cleanup.running, NEW n \in Names, ~Free(n),
               dir'[n] = NoFile
        PROVE  n[1] \in {"save", "clear"} /\ clock - dir[n].begun >= MinAge
    <2>1. /\ \A k \in Keys : op[k] = Idle
          /\ \A m \in cleanup.todo :
               /\ OwnedTemporary(m)
               /\ ~Free(m) => cleanup.now - dir[m].mtime <= clock - dir[m].begun
      BY <1>1 DEF Inv, FileInv, CleanupInv
    <2>2. dir' # dir
      BY <1>1 DEF Free
    <2>3. ASSUME NEW k \in Keys, NEW ok \in BOOLEAN, Step(k, ok) PROVE FALSE
      <3>1. op[k].pc = "idle"
        BY <2>1 DEF Idle
      <3> QED
        BY <2>3, <3>1 DEF Step, At, SaveOpen, SaveWrite, UnixCommit, WindowsMove,
                          ClearRefresh, ClearRemove, Quarantine, SyncNamespace,
                          DeleteStaging
    <2>4. \E m \in Names, ok \in BOOLEAN : CleanupEntry(m, ok)
      BY <1>1, <2>2, <2>3 DEF Next, OpenStore, SyncRoot, Begin, Load, CleanupBegin,
                              CleanupEnd, Crash, Tick, SetBack, vars
    <2>5. PICK m \in Names, ok \in BOOLEAN : CleanupEntry(m, ok)
      BY <2>4
    <2>6. m = n /\ n \in cleanup.todo /\ OldEnough(dir[n], cleanup.now)
      BY <1>1, <2>5 DEF CleanupEntry, Inv, TypeOK, Free
    <2>7. n[1] \in {"save", "clear"} /\ cleanup.now - dir[n].mtime <= clock - dir[n].begun
      BY <1>1, <2>1, <2>6 DEF OwnedTemporary
    <2>8. cleanup.now \in Int /\ dir[n].mtime \in Int /\ dir[n].begun \in Int /\ clock \in Int
      <3>1. dir[n] \in File
        BY <1>1, FileFacts
      <3>2. cleanup.now \in Int /\ clock \in Nat
        BY <1>1, CleanupFacts, WallFacts DEF Inv
      <3> QED
        BY <3>1, <3>2 DEF File, WallTimes
    <2> QED
      BY <2>6, <2>7, <2>8 DEF OldEnough
  <1>2. Inv /\ [Next]_vars => [SparesTheYoung]_vars
    BY <1>1 DEF SparesTheYoung
  <1> QED
    BY <1>2, InitInv, NextInv, PTL DEF Spec, CleanupSparesTheYoung, SparesTheYoung
=============================================================================
