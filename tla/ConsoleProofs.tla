------------------------------ MODULE ConsoleProofs ------------------------------
(***************************************************************************)
(* Proofs about Console and its components.  Each has its invariant,       *)
(* proved over its own initial states and steps; ConsoleInv puts them      *)
(* together: of each behaviour the invariant of the component it is of.    *)
(* Where a definition is recursive (the digits of a number) the induction  *)
(* is over the least number that does not keep the claim (LeastNumber).    *)
(***************************************************************************)
EXTENDS Console, SequenceTheorems, FiniteSetTheorems, WellFoundedInduction, TLAPS

--------------------------------------------------------------------------------
(* Numbers and sequences                                                    *)

\* Numbers that are not all absent have a least one: the induction of this module is over it.
LEMMA LeastNumber ==
  ASSUME NEW T, T \subseteq Nat, T # {}
  PROVE  \E m \in T : \A k \in T : m <= k
<1> DEFINE Runs == {0 .. k : k \in T}
           R == StrictSubsetOrdering(Nat)
<1>1. IsWellFoundedOn(R, FiniteSubsetsOf(Nat)) BY FS_StrictSubsetOrderingWellFounded
<1>2. Runs \subseteq FiniteSubsetsOf(Nat) /\ Runs # {}
  <2>1. ASSUME NEW k \in T PROVE 0 .. k \in SUBSET Nat /\ IsFiniteSet(0 .. k)
    <3>1. 0 \in Int /\ k \in Int OBVIOUS
    <3> QED BY <3>1, FS_Interval
  <2> QED BY <2>1 DEF FiniteSubsetsOf
<1>3. PICK run \in Runs : \A other \in Runs : ~(<<other, run>> \in R)
  <2> HIDE DEF Runs, R
  <2> QED BY <1>1, <1>2, WFMin
<1>4. PICK m \in T : run = 0 .. m OBVIOUS
<1>5. ASSUME NEW k \in T, k < m PROVE FALSE
  <2>1. 0 .. k \in Runs /\ 0 .. k \subseteq 0 .. m /\ 0 .. k # 0 .. m 
    <3>1. k \in Nat /\ m \in Nat /\ m \in 0 .. m /\ m \notin 0 .. k BY <1>5
    <3> QED BY <1>5, <3>1
  <2>2. 0 .. k \in SUBSET Nat /\ 0 .. m \in SUBSET Nat OBVIOUS
  <2>3. <<0 .. k, 0 .. m>> \in R BY <2>1, <2>2 DEF StrictSubsetOrdering
  <2> QED BY <1>3, <1>4, <2>1, <2>3
<1> QED BY <1>5

\* The head and the tail of a sequence that is not empty.
LEMMA TailOf ==
  ASSUME NEW S, NEW s \in Seq(S), s # <<>>
  PROVE  /\ Tail(s) \in Seq(S) /\ Head(s) \in S /\ 1 \in DOMAIN s /\ Head(s) = s[1]
         /\ Len(Tail(s)) = Len(s) - 1 /\ Len(s) \in Nat \ {0}
         /\ \A i \in DOMAIN Tail(s) : i \in Nat \ {0} /\ i + 1 \in DOMAIN s /\ Tail(s)[i] = s[i + 1]
OBVIOUS

\* A sequence with an element more at its end.
LEMMA AppendOf ==
  ASSUME NEW S, NEW s \in Seq(S), NEW e \in S
  PROVE  /\ Append(s, e) \in Seq(S) /\ Len(Append(s, e)) = Len(s) + 1 /\ Len(s) \in Nat
         /\ DOMAIN s = 1 .. Len(s) /\ DOMAIN Append(s, e) = 1 .. Len(s) + 1
         /\ \A i \in DOMAIN s : Append(s, e)[i] = s[i]
         /\ Append(s, e)[Len(s) + 1] = e
OBVIOUS

--------------------------------------------------------------------------------
(* Credentials                                                              *)

\* A request between its files and its row has stored a certificate, and it is still there
\* unless the server was deleted.
Stored ==
  \A r \in Requests : pc[r] = "closing" =>
    got[r] \in Materials /\ (row # NoRow => pem # NoFile /\ key # NoFile)

\* Only a deleted server loses its files.
Deleting == \A r \in Requests : pc[r] = "delete" => row = NoRow

IInv == TypeOK /\ Stored /\ Deleting /\ ShownIsUsed /\ EnrolledIsReal

--------------------------------------------------------------------------------
\* A request that moves between steps without files to put in the row changes nothing for the
\* others.
LEMMA StoringKept ==
  ASSUME TypeOK, NEW r \in Requests, NEW next, next # "closing", pc[r] # "closing",
         pc' = [pc EXCEPT ![r] = next]
  PROVE  Storing' = Storing
<1>1. ASSUME NEW q \in Requests PROVE (pc'[q] = "closing") <=> (pc[q] = "closing")
  BY <1>1 DEF TypeOK
<1> QED BY <1>1 DEF Storing

\* What an import does: it writes some of the two files and then commits or fails, or nothing.
ImportsOf(m) ==
  \/ \E certToo, keyToo \in BOOLEAN :
       Written(m, certToo, keyToo) /\ (Imported(m, certToo, keyToo) \/ Fails)
  \/ UNCHANGED <<row, files, manager, mixed, failed>>

\* Both kinds of uploads are imported so.
LEMMA ImportCases == Import => \E m \in Fresh : ImportsOf(m)
<1> SUFFICES ASSUME Import PROVE \E m \in Fresh : ImportsOf(m) OBVIOUS
<1>1. PICK m \in Fresh, upload \in Uploads : ImportPair(m, upload) \/ ImportP12(m, upload)
  BY DEF Import
<1>2. CASE ImportPair(m, upload) BY <1>2 DEF ImportPair, ImportsOf
<1>3. CASE ImportP12(m, upload) BY <1>3 DEF ImportP12, ImportsOf
<1> QED BY <1>1, <1>2, <1>3

\* The names and steps a handler writes are of their kinds.
LEMMA TypeStep == TypeOK /\ [Next]_vars => TypeOK'
<1> SUFFICES ASSUME TypeOK, [Next]_vars PROVE TypeOK' OBVIOUS
<1> USE DEF TypeOK
<1>1. ASSUME NEW r \in Requests, Enroll(r) PROVE TypeOK' BY <1>1 DEF Enroll, Go, files
<1>2. ASSUME NEW r \in Requests, EnrollFails(r) PROVE TypeOK' BY <1>2 DEF EnrollFails, Go, files
<1>3. ASSUME NEW r \in Requests, Config(r) PROVE TypeOK' BY <1>3 DEF Config, Go, files
<1>4. ASSUME NEW r \in Requests, SignV1(r) PROVE TypeOK' BY <1>4 DEF SignV1, Go, files
<1>5. ASSUME NEW r \in Requests, Store(r) PROVE TypeOK' BY <1>5 DEF Store, Go, Fresh
<1>6. ASSUME NEW r \in Requests, StoreCommit(r) PROVE TypeOK'
  <2>1. row' \in Materials \cup {NoFile, Blank, NoRow} BY <1>6 DEF StoreCommit
  <2>2. manager' \in {"dry", "tls", NoManager} BY <1>6 DEF StoreCommit, RestartManager
  <2>3. mixed' \in BOOLEAN /\ failed' \in BOOLEAN BY <1>6 DEF StoreCommit
  <2>4. pc' \in [Requests -> {"idle", "config", "sign", "signV1", "closing", "delete"}]
    BY <1>6 DEF StoreCommit, Go
  <2>5. got' \in [Requests -> Materials \cup {NoFile}] BY <1>6 DEF StoreCommit
  <2> QED BY <1>6, <2>1, <2>2, <2>3, <2>4, <2>5 DEF StoreCommit, files
<1>14. ASSUME NEW r \in Requests, StoreFails(r) PROVE TypeOK' BY <1>14 DEF StoreFails, Fails, Go, files
<1>7. ASSUME NEW r \in Requests, StoreOrphaned(r) PROVE TypeOK' BY <1>7 DEF StoreOrphaned, Go, files
<1>8. ASSUME NEW r \in Requests, Delete(r) PROVE TypeOK' BY <1>8 DEF Delete, Go, files
<1>9. ASSUME NEW r \in Requests, DeleteFiles(r) PROVE TypeOK' BY <1>9 DEF DeleteFiles, Go
<1>10. CASE Import
  <2>1. PICK m \in Fresh : ImportsOf(m) BY <1>10, ImportCases
  <2>2. m \in Materials /\ UNCHANGED <<pc, got, left>> BY <1>10 DEF Import, Fresh
  <2>3. ASSUME NEW certToo \in BOOLEAN, NEW keyToo \in BOOLEAN, Written(m, certToo, keyToo)
        PROVE  pem' \in Materials \cup {NoFile} /\ key' \in Materials \cup {NoFile}
    BY <2>2, <2>3 DEF Written
  <2>4. ASSUME NEW certToo \in BOOLEAN, NEW keyToo \in BOOLEAN, Imported(m, certToo, keyToo)
        PROVE  /\ row' \in Materials \cup {NoFile, Blank, NoRow} /\ mixed' \in BOOLEAN
               /\ failed' \in BOOLEAN /\ manager' \in {"dry", "tls", NoManager}
    BY <2>2, <2>4 DEF Imported, RestartManager
  <2>5. CASE UNCHANGED <<row, files, manager, mixed, failed>> BY <2>2, <2>5 DEF files
  <2>6. ASSUME NEW certToo \in BOOLEAN, NEW keyToo \in BOOLEAN, Written(m, certToo, keyToo),
               Imported(m, certToo, keyToo) \/ Fails
        PROVE  TypeOK'
    <3>1. CASE Imported(m, certToo, keyToo) BY <2>2, <2>3, <2>4, <2>6, <3>1
    <3>2. CASE Fails BY <2>2, <2>3, <2>6, <3>2 DEF Fails
    <3> QED BY <2>6, <3>1, <3>2
  <2> QED BY <2>1, <2>5, <2>6 DEF ImportsOf
<1>11. CASE Save BY <1>11 DEF Save, RestartManager, files
<1>12. CASE Crash BY <1>12 DEF Crash, RestartManager, files
<1>13. CASE UNCHANGED vars BY <1>13 DEF vars, files
<1> QED
  BY <1>1, <1>2, <1>3, <1>4, <1>5, <1>6, <1>7, <1>8, <1>9, <1>10, <1>11, <1>12, <1>13, <1>14 DEF Next

\* A step of a request that touches neither files nor row keeps the invariant.
LEMMA QuietStep ==
  ASSUME IInv, TypeOK', NEW r \in Requests, NEW next, next \notin {"closing", "delete"},
         pc[r] # "closing", Go(r, next), UNCHANGED <<row, pem, key, manager, got, mixed, failed>>
  PROVE  IInv'
<1>1. Storing' = Storing BY StoringKept DEF IInv, Go
<1>2. Stored'
  BY DEF IInv, TypeOK, Stored, Go
<1>3. Deleting' BY DEF IInv, TypeOK, Deleting, Go
<1>4. ShownIsUsed' BY <1>1 DEF IInv, ShownIsUsed
<1>5. EnrolledIsReal' BY <1>1 DEF IInv, EnrolledIsReal
<1> QED BY <1>2, <1>3, <1>4, <1>5 DEF IInv

\* The manager that is made from the row and the files is real when they are complete.
LEMMA RealManager ==
  ASSUME RestartManager, row' # NoFile, pem' # NoFile, key' # NoFile
  PROVE  manager' = "tls"
BY DEF RestartManager

\* An import replaces row and files together, or fails and says so.
LEMMA ImportKept ==
  ASSUME IInv, TypeOK', NEW m \in Materials, NEW certToo \in BOOLEAN, NEW keyToo \in BOOLEAN,
         Written(m, certToo, keyToo), Imported(m, certToo, keyToo) \/ Fails, row # NoRow,
         UNCHANGED <<pc, got, left>>
  PROVE  IInv'
<1>1. Storing' = Storing BY DEF Storing
<1>2. (pem' = m \/ pem' = pem) /\ (key' = m \/ key' = key) /\ m # NoFile
  BY MaterialAssumption DEF Written
<1>3. Stored' BY <1>2 DEF IInv, Stored, TypeOK
<1>4. Deleting' BY DEF IInv, Deleting
<1>5. ShownIsUsed'
  <2>1. CASE Fails BY <2>1 DEF Fails, ShownIsUsed
  <2>2. CASE Imported(m, certToo, keyToo) /\ ~mixed'
    <3>1. certToo /\ keyToo BY <2>2 DEF Imported
    <3>2. pem' = m /\ key' = m /\ row' = m BY <2>2, <3>1 DEF Imported, Written
    <3> QED BY <3>2 DEF ShownIsUsed
  <2> QED BY <2>1, <2>2 DEF ShownIsUsed
<1>6. EnrolledIsReal'
  <2>1. CASE Fails BY <2>1 DEF Fails, EnrolledIsReal
  <2>2. CASE Imported(m, certToo, keyToo) BY <2>2, RealManager DEF Imported, EnrolledIsReal
  <2> QED BY <2>1, <2>2
<1> QED BY <1>3, <1>4, <1>5, <1>6 DEF IInv

\* After the wait the row shows what the request has stored, unless the server is gone.
LEMMA CommitKept ==
  ASSUME IInv, TypeOK', NEW r \in Requests, StoreCommit(r)
  PROVE  IInv'
<1> USE DEF IInv
<1>1. got[r] \in Materials /\ pem # NoFile /\ key # NoFile BY DEF Stored, StoreCommit
<1>2. row' = got[r] /\ pem' = pem /\ key' = key BY DEF StoreCommit, files
<1>3. Stored' BY <1>1, <1>2 DEF Stored, StoreCommit, Go, TypeOK
<1>4. Deleting'
  <2>1. \A q \in Requests : pc[q] = "delete" => FALSE BY DEF Deleting, StoreCommit
  <2>2. \A q \in Requests : pc'[q] # "delete" BY <2>1 DEF StoreCommit, Go, TypeOK
  <2> QED BY <2>2 DEF Deleting
<1>5. ShownIsUsed'
  <2>1. CASE ~mixed' BY <1>2, <2>1 DEF ShownIsUsed, StoreCommit, TypeOK
  <2> QED BY <2>1 DEF ShownIsUsed
<1>6. EnrolledIsReal' BY RealManager DEF EnrolledIsReal, StoreCommit
<1> QED BY <1>3, <1>4, <1>5, <1>6

\* A crash forgets the requests; the manager is made anew.
LEMMA CrashKept == ASSUME IInv, TypeOK', Crash PROVE IInv'
<1> USE DEF IInv
<1>1. /\ UNCHANGED <<row, pem, key>> /\ pc' = [r \in Requests |-> "idle"]
      /\ mixed' = (mixed \/ Storing # {})
      /\ IF row = NoRow THEN manager' = NoManager ELSE RestartManager
  BY DEF Crash, files
<1>2. \A r \in Requests : pc'[r] = "idle" BY <1>1
<1>3. Stored' BY <1>2 DEF Stored
<1>4. Deleting' BY <1>2 DEF Deleting
<1>5. ShownIsUsed' BY <1>1 DEF ShownIsUsed, TypeOK
<1>6. EnrolledIsReal' BY <1>1, RealManager DEF EnrolledIsReal
<1> QED BY <1>3, <1>4, <1>5, <1>6

\* Every step keeps the invariant.
LEMMA InvStep == IInv /\ [Next]_vars => IInv'
<1> SUFFICES ASSUME IInv, [Next]_vars PROVE IInv' OBVIOUS
<1>0. TypeOK' BY TypeStep DEF IInv
<1>1. ASSUME NEW r \in Requests, Enroll(r) PROVE IInv'
  BY <1>0, <1>1, QuietStep DEF Enroll, files
<1>2. ASSUME NEW r \in Requests, EnrollFails(r) PROVE IInv'
  BY <1>0, <1>2, QuietStep DEF EnrollFails, files
<1>3. ASSUME NEW r \in Requests, Config(r) PROVE IInv'
  BY <1>0, <1>3, QuietStep DEF Config, files
<1>4. ASSUME NEW r \in Requests, SignV1(r) PROVE IInv'
  BY <1>0, <1>4, QuietStep DEF SignV1, files
<1>5. ASSUME NEW r \in Requests, Store(r) PROVE IInv'
  <2>1. PICK m \in Fresh : pem' = m /\ key' = m /\ got' = [got EXCEPT ![r] = m] BY <1>5 DEF Store
  <2>2. m \in Materials /\ m # NoFile BY MaterialAssumption DEF Fresh
  <2>3. pc' = [pc EXCEPT ![r] = "closing"] /\ UNCHANGED <<row, manager, mixed, failed, left>>
    BY <1>5 DEF Store, Go
  <2>4. r \in Storing' BY <2>3 DEF Storing, IInv, TypeOK
  <2>5. Stored' BY <2>1, <2>2, <2>3 DEF IInv, TypeOK, Stored
  <2>6. Deleting' BY <2>3 DEF IInv, TypeOK, Deleting
  <2>7. ShownIsUsed' BY <2>1, <2>4 DEF ShownIsUsed
  <2>8. EnrolledIsReal' BY <2>4 DEF EnrolledIsReal
  <2> QED BY <1>0, <2>5, <2>6, <2>7, <2>8 DEF IInv
<1>6. ASSUME NEW r \in Requests, StoreCommit(r) PROVE IInv' BY <1>0, <1>6, CommitKept
<1>14. ASSUME NEW r \in Requests, StoreFails(r) PROVE IInv'
  <2>1. UNCHANGED <<row, pem, key>> /\ Go(r, "idle") /\ mixed' = TRUE /\ failed' = TRUE
    BY <1>14 DEF StoreFails, Fails, files
  <2>2. Stored' BY <1>14, <2>1 DEF IInv, TypeOK, Stored, Go, StoreFails
  <2>3. Deleting' BY <2>1 DEF IInv, TypeOK, Deleting, Go
  <2> QED BY <1>0, <2>1, <2>2, <2>3 DEF IInv, ShownIsUsed, EnrolledIsReal
<1>7. ASSUME NEW r \in Requests, StoreOrphaned(r) PROVE IInv'
  <2>1. row' = NoRow /\ UNCHANGED <<pem, key>> /\ Go(r, "idle") BY <1>7 DEF StoreOrphaned, files
  <2>2. Stored' BY <1>7, <2>1 DEF IInv, TypeOK, Stored, Go, StoreOrphaned
  <2>3. Deleting' BY <1>7, <2>1 DEF IInv, TypeOK, Deleting, Go, StoreOrphaned
  <2> QED BY <1>0, <2>1, <2>2, <2>3 DEF IInv, ShownIsUsed, EnrolledIsReal
<1>8. ASSUME NEW r \in Requests, Delete(r) PROVE IInv'
  <2>1. row' = NoRow /\ UNCHANGED <<pem, key, got>> /\ Go(r, "delete") BY <1>8 DEF Delete, files
  <2>2. Stored' BY <2>1 DEF IInv, TypeOK, Stored, Go
  <2>3. Deleting' BY <2>1 DEF IInv, TypeOK, Deleting
  <2> QED BY <1>0, <2>1, <2>2, <2>3 DEF IInv, ShownIsUsed, EnrolledIsReal
<1>9. ASSUME NEW r \in Requests, DeleteFiles(r) PROVE IInv'
  <2>1. row = NoRow BY <1>9 DEF DeleteFiles, IInv, Deleting
  <2>2. row' = NoRow /\ pem' = NoFile /\ key' = NoFile /\ got' = got /\ Go(r, "idle")
    BY <1>9, <2>1 DEF DeleteFiles
  <2>3. Stored' BY <2>2 DEF IInv, TypeOK, Stored, Go
  <2>4. Deleting' BY <2>2 DEF Deleting
  <2> QED BY <1>0, <2>2, <2>3, <2>4 DEF IInv, ShownIsUsed, EnrolledIsReal
<1>10. CASE Import
  <2>1. PICK m \in Fresh : ImportsOf(m) BY <1>10, ImportCases
  <2>2. m \in Materials /\ row # NoRow /\ UNCHANGED <<pc, got, left>> BY <1>10 DEF Import, Fresh
  <2>3. ASSUME NEW certToo \in BOOLEAN, NEW keyToo \in BOOLEAN, Written(m, certToo, keyToo),
               Imported(m, certToo, keyToo) \/ Fails
        PROVE  IInv'
    BY <1>0, <2>2, <2>3, ImportKept
  <2>4. CASE UNCHANGED <<row, files, manager, mixed, failed>>
    BY <1>0, <2>2, <2>4 DEF files, IInv, Stored, Deleting, ShownIsUsed, EnrolledIsReal, Storing
  <2> QED BY <2>1, <2>3, <2>4 DEF ImportsOf
<1>11. CASE Save
  <2>1. UNCHANGED <<row, pem, key, pc, got, mixed, left>> /\ RestartManager /\ row # NoRow
    BY <1>11 DEF Save, files
  <2>2. Storing' = Storing BY <2>1 DEF Storing
  <2>3. Stored' /\ Deleting' /\ ShownIsUsed' BY <2>1, <2>2 DEF IInv, Stored, Deleting, ShownIsUsed
  <2>4. EnrolledIsReal' BY <1>0, <2>1, <2>3, RealManager DEF EnrolledIsReal
  <2> QED BY <1>0, <2>3, <2>4 DEF IInv
<1>12. CASE Crash BY <1>0, <1>12, CrashKept
<1>13. CASE UNCHANGED vars
  BY <1>0, <1>13 DEF vars, files, IInv, Stored, Deleting, ShownIsUsed, EnrolledIsReal, Storing
<1> QED
  BY <1>1, <1>2, <1>3, <1>4, <1>5, <1>6, <1>7, <1>8, <1>9, <1>10, <1>11, <1>12, <1>13, <1>14 DEF Next

\* The console starts with no enrollment and nothing on disk.
LEMMA InvInit == Init => IInv
BY MaterialAssumption DEF Init, IInv, TypeOK, Stored, Deleting, ShownIsUsed, EnrolledIsReal, Storing

\* The inductive invariant holds in every behaviour of the credentials.
LEMMA Invariant == Spec => []IInv
<1>1. Init => IInv BY InvInit
<1>2. IInv /\ [Next]_vars => IInv' BY InvStep
<1> QED BY <1>1, <1>2, PTL DEF Spec

--------------------------------------------------------------------------------
\* However many requests enroll, import, save and delete, and wherever they are cut off: the
\* certificate of a server has its own key and is the one the page shows, unless an import or a
\* commit failed half way, a PKCS#12 had no key or no certificate, or an enrollment was
\* overtaken (import_pem_pair, import_pkcs12, tak_enroll).
THEOREM Shown == Spec => []ShownIsUsed
<1>1. IInv => ShownIsUsed BY DEF IInv
<1> QED BY <1>1, Invariant, PTL

\* No server whose row names a certificate and a key that are there goes on counting reports as
\* sent, unless the request that wrote one of them failed (_manager_for).
THEOREM Real == Spec => []EnrolledIsReal
<1>1. IInv => EnrolledIsReal BY DEF IInv
<1> QED BY <1>1, Invariant, PTL

--------------------------------------------------------------------------------
(* What a deletion leaves behind.                                          *)

\* A deleted server is enrolled for no more, and its files go before its deletion ends.
Gone ==
  row = NoRow /\ ~left =>
    /\ Enrolling = {}
    /\ (pem = NoFile /\ key = NoFile) \/ \E r \in Requests : pc[r] = "delete"

\* Only a deletion makes the server go, and only what runs without it can come after.
LEMMA GoneStep == IInv /\ Gone /\ [Next]_vars => Gone'
<1> SUFFICES ASSUME IInv, Gone, [Next]_vars PROVE Gone' OBVIOUS
<1>0. TypeOK BY DEF IInv
<1>1. ASSUME row' # NoRow PROVE Gone' BY <1>1 DEF Gone
<1>2. ASSUME NEW r \in Requests, Delete(r) PROVE Gone'
  <2>1. pc[r] = "idle" /\ pc' = [pc EXCEPT ![r] = "delete"] /\ left' = (Enrolling # {})
    BY <1>2 DEF Delete, Go
  <2>2. pc'[r] = "delete" BY <1>0, <2>1 DEF TypeOK
  <2>3. Enrolling = {} => Enrolling' = {} BY <1>0, <2>1 DEF TypeOK, Enrolling
  <2> QED BY <2>1, <2>2, <2>3 DEF Gone
<1>3. ASSUME NEW r \in Requests, DeleteFiles(r) PROVE Gone'
  <2>1. /\ pc' = [pc EXCEPT ![r] = "idle"] /\ pem' = NoFile /\ key' = NoFile
        /\ UNCHANGED <<row, left>>
    BY <1>3 DEF DeleteFiles, Go
  <2>2. Enrolling = {} => Enrolling' = {} BY <1>0, <2>1 DEF TypeOK, Enrolling
  <2> QED BY <2>1, <2>2 DEF Gone
<1>4. ASSUME NEW r \in Requests,
             Enroll(r) \/ EnrollFails(r) \/ Config(r) \/ SignV1(r) \/ Store(r) \/ StoreOrphaned(r)
      PROVE  Gone'
  <2>1. row' = row /\ left' = left /\ (row = NoRow => r \in Enrolling)
    BY <1>4 DEF Enroll, EnrollFails, Config, SignV1, Store, StoreOrphaned, Enrolling
  <2> QED BY <2>1 DEF Gone
<1>5. CASE Import
  <2>1. PICK m \in Fresh : ImportsOf(m) BY <1>5, ImportCases
  <2>2. row # NoRow /\ m # NoRow /\ Blank # NoRow
    BY <1>5, MaterialAssumption DEF Import, Fresh
  <2>3. row' # NoRow BY <2>1, <2>2 DEF ImportsOf, Imported, Fails
  <2> QED BY <1>1, <2>3
<1>6. CASE Save BY <1>1, <1>6 DEF Save
<1>7. CASE Crash
  <2>1. /\ UNCHANGED <<row, pem, key>> /\ pc' = [r \in Requests |-> "idle"]
        /\ left' = (left \/ \E r \in Requests : pc[r] = "delete")
    BY <1>7 DEF Crash, files
  <2>2. Enrolling' = {} BY <2>1 DEF Enrolling
  <2> QED BY <2>1, <2>2 DEF Gone
<1>8. CASE UNCHANGED vars
  <2>1. Enrolling' = Enrolling BY <1>8 DEF vars, Enrolling
  <2> QED BY <1>8, <2>1 DEF vars, files, Gone
<1>10. ASSUME NEW r \in Requests, StoreFails(r) PROVE Gone'
  BY <1>1, <1>10 DEF StoreFails, Fails
<1>9. ASSUME NEW r \in Requests, StoreCommit(r) PROVE Gone'
  <2>1. row' = got[r] /\ got[r] \in Materials BY <1>9 DEF StoreCommit, IInv, Stored
  <2> QED BY <1>1, <2>1, MaterialAssumption
<1> QED BY <1>2, <1>3, <1>4, <1>5, <1>6, <1>7, <1>8, <1>9, <1>10 DEF Next

\* A deleted server leaves no certificate and no key on disk, unless it was deleted during an
\* enrollment or the process ended in between (tak_delete).
THEOREM Cleaned == Spec => []NothingLeft
<1>1. Init => Gone BY DEF Init, Gone, Enrolling
<1>2. IInv /\ Gone /\ [Next]_vars => Gone' BY GoneStep
<1>3. Gone => NothingLeft BY DEF Gone, NothingLeft
<1> QED BY <1>1, <1>2, <1>3, Invariant, PTL DEF Spec

--------------------------------------------------------------------------------
(* Alerts                                                                   *)

\* What lasts since it was acknowledged holds, and its acknowledgement is as old as the history
\* says and within its time; only that of the idle waterfall may be lost.
Quiet ==
  /\ DOMAIN quiet \subseteq Board!Conditions(world, TRUE)
  /\ \A id \in DOMAIN quiet \ {Board!Idle} :
       id \in DOMAIN acked /\ acked[id] = quiet[id]
  /\ \A id \in DOMAIN quiet : quiet[id] \in 0 .. AckTtl

\* What was announced and lasts was seen by the last request.
Told == told \subseteq Board!Conditions(world, TRUE) /\ told \ {Board!Idle} \subseteq seen

AlertsInv == Quiet /\ Told /\ Board!AckHolds /\ Board!ToldOnce

\* The requests work out the same conditions of a world, but for the idle waterfall.
LEMMA SameConditions ==
  ASSUME NEW w, NEW spectrum \in BOOLEAN
  PROVE  /\ Board!Conditions(w, spectrum) \subseteq Board!Conditions(w, TRUE)
         /\ Board!Conditions(w, TRUE) \ {Board!Idle} \subseteq Board!Conditions(w, spectrum)
BY DEF Board!Conditions, Board!RadioConditions, Board!Idle

\* Nothing is acknowledged or announced at the start.
LEMMA AlertsInit == Board!Init => AlertsInv
BY DEF Board!Init, AlertsInv, Quiet, Told, Board!AckHolds, Board!ToldOnce

\* A request, an acknowledgement, a change of the world and a tick keep the invariant.
LEMMA AlertsStep == AlertsInv /\ [Board!Next]_board => AlertsInv'
<1> SUFFICES ASSUME AlertsInv, [Board!Next]_board PROVE AlertsInv' OBVIOUS
<1> USE DEF AlertsInv, Board!AckHolds, Board!ToldOnce
<1>1. CASE Board!Change
  BY <1>1 DEF Board!Change, Quiet, Told, Board!Restrict, Board!store
<1>2. CASE Board!Tick
  <2>1. ASSUME NEW id \in DOMAIN quiet'
        PROVE  id \in DOMAIN quiet /\ quiet[id] < AckTtl /\ quiet'[id] = quiet[id] + 1
    BY <1>2 DEF Board!Tick
  <2>2. ASSUME NEW id \in DOMAIN quiet' \ {Board!Idle}
        PROVE  id \in DOMAIN acked' /\ acked'[id] = quiet'[id]
    BY <1>2, <2>1, AlertAssumption DEF Board!Tick, Board!Expired, Quiet
  <2>3. \A id \in DOMAIN quiet' : quiet'[id] \in 0 .. AckTtl
    BY <2>1, AlertAssumption DEF Quiet
  <2>4. DOMAIN quiet' \subseteq Board!Conditions(world', TRUE)
    BY <1>2, <2>1 DEF Quiet, Board!Tick
  <2> QED BY <1>2, <2>2, <2>3, <2>4 DEF Quiet, Told, Board!Tick
<1>3. CASE Board!View
  <2>1. PICK spectrum \in BOOLEAN :
          LET active == Board!Conditions(world, spectrum)
              pruned == Board!Pruned(active)
              over == {id \in DOMAIN pruned \cap active : Board!Expired(pruned[id])}
          IN  /\ seen' = active
              /\ acked' = Board!Restrict(pruned, DOMAIN pruned \ over)
              /\ listed' = (active \ DOMAIN pruned) \cup over
              /\ told' = told \cup (active \ seen)
              /\ again' = again \cup (told \cap (active \ seen))
              /\ world' = world /\ quiet' = quiet
    BY <1>3 DEF Board!View, Board!Noted
  <2> DEFINE active == Board!Conditions(world, spectrum)
             pruned == Board!Pruned(active)
             over == {id \in DOMAIN pruned \cap active : Board!Expired(pruned[id])}
  <2>2. /\ active \subseteq Board!Conditions(world, TRUE)
        /\ Board!Conditions(world, TRUE) \ {Board!Idle} \subseteq active
    BY SameConditions
  <2>3. ASSUME NEW id \in DOMAIN quiet \ {Board!Idle}
        PROVE  id \in active /\ id \in DOMAIN pruned /\ id \notin over /\ pruned[id] = quiet[id]
    <3>1. id \in active /\ id \in DOMAIN pruned /\ pruned[id] = acked[id]
      BY <2>2 DEF Quiet, Board!Pruned, Board!Restrict
    <3> QED BY <3>1, AlertAssumption DEF Quiet, Board!Expired
  <2> HIDE DEF active, pruned
  <2>4. ASSUME NEW id \in DOMAIN quiet' \ {Board!Idle}
        PROVE  id \in DOMAIN acked' /\ acked'[id] = quiet'[id]
    BY <2>1, <2>3 DEF Board!Restrict, active, pruned
  <2>5. Quiet' BY <2>1, <2>4 DEF Quiet
  <2>6. Board!AckHolds' BY <2>1, <2>3 DEF active, pruned
  <2>7. Told' /\ Board!ToldOnce' BY <2>1, <2>2 DEF Told, active
  <2> QED BY <2>5, <2>6, <2>7
<1>4. CASE Board!Restart
  BY <1>4 DEF Board!Restart, Quiet, Told
<1>5. ASSUME NEW id \in Board!Ids, Board!Acknowledge(id) PROVE AlertsInv'
  <2>1. CASE id \in Board!Conditions(world, TRUE)
    <3>1. quiet' = [x \in {id} \cup DOMAIN quiet |-> IF x = id THEN 0 ELSE quiet[x]]
      BY <1>5, <2>1 DEF Board!Acknowledge, Board!Set
    <3>2. acked' = [x \in {id} \cup DOMAIN acked |-> IF x = id THEN 0 ELSE acked[x]]
      BY <1>5 DEF Board!Acknowledge, Board!Set
    <3>3. DOMAIN quiet' = {id} \cup DOMAIN quiet /\ DOMAIN acked' = {id} \cup DOMAIN acked
      BY <3>1, <3>2
    <3>4. \A x \in DOMAIN quiet' \ {Board!Idle} : x \in DOMAIN acked' /\ acked'[x] = quiet'[x]
      BY <3>1, <3>2, <3>3 DEF Quiet
    <3>5. \A x \in DOMAIN quiet' : quiet'[x] \in 0 .. AckTtl
      BY <3>1, <3>3, AlertAssumption DEF Quiet
    <3>6. Quiet' BY <1>5, <2>1, <3>3, <3>4, <3>5 DEF Board!Acknowledge, Quiet
    <3> QED BY <1>5, <3>6 DEF Board!Acknowledge, Told
  <2>2. CASE id \notin Board!Conditions(world, TRUE)
    <3>1. quiet' = [x \in DOMAIN quiet |-> quiet[x]]
      BY <1>5, <2>2 DEF Board!Acknowledge, Quiet, Board!Restrict
    <3>2. acked' = [x \in {id} \cup DOMAIN acked |-> IF x = id THEN 0 ELSE acked[x]]
      BY <1>5 DEF Board!Acknowledge, Board!Set
    <3>3. Quiet' BY <1>5, <2>2, <3>1, <3>2 DEF Board!Acknowledge, Quiet
    <3> QED BY <1>5, <3>3 DEF Board!Acknowledge, Told
  <2> QED BY <2>1, <2>2
<1>6. CASE UNCHANGED board BY <1>6 DEF board, Quiet, Told
<1> QED BY <1>1, <1>2, <1>3, <1>4, <1>5, <1>6 DEF Board!Next

--------------------------------------------------------------------------------
(* APRS-IS                                                                  *)

\* The consumers and queues of the connections; those that are not made yet are as they were.
Items == [n : Nat, by : Feeds!Conns]
Asked == [n : Nat, to : Feeds!Conns]

FeedTypes ==
  /\ conn \in 0 .. MaxConns /\ packets \in Nat /\ first \in 1 .. conn + 1
  /\ step \in {"off", "idle", "connecting", "consuming", "waiting", "ingesting", "closing"}
  /\ step \in {"connecting", "consuming", "waiting", "ingesting", "closing"} => conn # 0
  /\ sees \in [Feeds!Conns -> 0 .. MaxConns] /\ strays \in SUBSET Feeds!Conns
  /\ consumer \in [Feeds!Conns -> {"none", "reading", "retrying", "ended"}]
  /\ taken \in [Feeds!Conns -> Nat]
  /\ calls \in [Feeds!Conns -> Seq(Asked)] /\ queues \in [Feeds!Conns -> Seq(Items)]
  /\ ingested \in Seq(Items)

NotMade ==
  /\ \A c \in Feeds!Conns : c > conn => consumer[c] = "none" /\ calls[c] = <<>> /\ queues[c] = <<>>
  /\ \A c \in Feeds!Conns : c <= conn => sees[c] \in c .. conn
  /\ \A c \in Feeds!Conns : \A i \in DOMAIN calls[c] : calls[c][i].to <= conn

\* Only the present connection and those its loop left behind put packets into the present queue.
Mine(c) == c \in strays \cup {conn}
Own ==
  /\ \A c \in Feeds!Conns : c <= conn /\ sees[c] = conn /\ ~Mine(c) => consumer[c] \in {"none", "ended"}
  /\ \A c \in Feeds!Conns : \A i \in DOMAIN calls[c] : calls[c][i].to = conn => Mine(c)
  /\ conn # 0 => \A i \in DOMAIN queues[conn] : Mine(queues[conn][i].by)

\* What one consumer brought is in the order of APRS-IS: ingested or queued before what it asks
\* for, which it has read.
Read(c, n) == n <= taken[c] /\ \A j \in DOMAIN calls[c] : n < calls[c][j].n
Chain ==
  /\ \A c \in Feeds!Conns : taken[c] <= packets
  /\ \A c \in Feeds!Conns : \A i \in DOMAIN calls[c] :
       calls[c][i].n <= taken[c] /\ \A j \in DOMAIN calls[c] : i < j => calls[c][i].n < calls[c][j].n
  /\ \A i \in DOMAIN ingested : Read(ingested[i].by, ingested[i].n)
  /\ conn # 0 => \A i \in DOMAIN queues[conn] : Read(queues[conn][i].by, queues[conn][i].n)

\* What was ingested is in order, and before what the present queue has.
InLine ==
  /\ \A i, j \in DOMAIN ingested : i < j => Feeds!Ordered(ingested[i], ingested[j])
  /\ conn # 0 => \A i \in DOMAIN ingested, j \in DOMAIN queues[conn] : Feeds!Ordered(ingested[i], queues[conn][j])
  /\ conn # 0 => \A i, j \in DOMAIN queues[conn] : i < j => Feeds!Ordered(queues[conn][i], queues[conn][j])

\* What came by an earlier connection that left nobody behind is older than what the present one
\* reads.
Older ==
  conn # 0 => \A i \in DOMAIN ingested : ~Mine(ingested[i].by) =>
    /\ consumer[conn] # "none" => ingested[i].n <= taken[conn]
    /\ \A j \in DOMAIN calls[conn] : ingested[i].n < calls[conn][j].n

FeedsInv == FeedTypes /\ NotMade /\ Own /\ Chain /\ InLine /\ Older

\* What this says of each number and element.
Shape ==
  /\ conn \in Nat /\ packets \in Nat /\ first \in Nat /\ 1 <= first /\ first <= conn + 1 /\ MaxConns \in Nat
  /\ conn <= MaxConns /\ (conn # 0 => conn \in Feeds!Conns)
  /\ \A c \in Feeds!Conns :
       /\ c \in Nat \ {0} /\ c <= MaxConns /\ sees[c] \in Nat /\ sees[c] <= MaxConns
       /\ taken[c] \in Nat /\ taken[c] <= packets
       /\ calls[c] \in Seq(Asked) /\ queues[c] \in Seq(Items)
  /\ \A c \in Feeds!Conns : \A i \in DOMAIN calls[c] :
       calls[c][i] \in Asked /\ calls[c][i].n \in Nat /\ calls[c][i].to \in Feeds!Conns /\ calls[c][i].to <= conn
  /\ \A c \in Feeds!Conns : \A i \in DOMAIN queues[c] :
       i \in Nat /\ queues[c][i] \in Items /\ queues[c][i].n \in Nat /\ queues[c][i].by \in Feeds!Conns
  /\ \A i \in DOMAIN ingested :
       i \in Nat /\ ingested[i] \in Items /\ ingested[i].n \in Nat /\ ingested[i].by \in Feeds!Conns

\* What the invariant says of each number and element.
LEMMA FeedsShape == FeedsInv => Shape
<1> SUFFICES ASSUME FeedsInv PROVE Shape OBVIOUS
<1>1. FeedTypes BY DEF FeedsInv
<1>2. /\ conn \in Nat /\ packets \in Nat /\ first \in Nat /\ 1 <= first /\ first <= conn + 1 /\ MaxConns \in Nat
      /\ conn <= MaxConns /\ (conn # 0 => conn \in Feeds!Conns)
  BY <1>1, FeedAssumption DEF FeedTypes, Feeds!Conns
<1>3. ASSUME NEW c \in Feeds!Conns
      PROVE  /\ c \in Nat \ {0} /\ c <= MaxConns /\ sees[c] \in Nat /\ sees[c] <= MaxConns
             /\ taken[c] \in Nat /\ calls[c] \in Seq(Asked) /\ queues[c] \in Seq(Items)
  <2>1. c \in Nat \ {0} /\ c <= MaxConns BY <1>2 DEF Feeds!Conns
  <2>2. sees[c] \in 0 .. MaxConns /\ taken[c] \in Nat /\ calls[c] \in Seq(Asked) /\ queues[c] \in Seq(Items)
    BY <1>1 DEF FeedTypes
  <2> QED BY <1>2, <2>1, <2>2
<1>4. \A c \in Feeds!Conns : taken[c] <= packets BY DEF FeedsInv, Chain
<1>5. \A e \in Items : e.n \in Nat /\ e.by \in Feeds!Conns BY DEF Items
<1>6. \A e \in Asked : e.n \in Nat /\ e.to \in Feeds!Conns BY DEF Asked
<1>7. \A s \in Seq(Items) : \A i \in DOMAIN s : i \in Nat /\ s[i] \in Items OBVIOUS
<1>8. \A s \in Seq(Asked) : \A i \in DOMAIN s : s[i] \in Asked OBVIOUS
<1>9. ingested \in Seq(Items) BY <1>1 DEF FeedTypes
<1>10. \A c \in Feeds!Conns : \A i \in DOMAIN calls[c] : calls[c][i].to <= conn BY DEF FeedsInv, NotMade
<1> QED BY <1>2, <1>3, <1>4, <1>5, <1>6, <1>7, <1>8, <1>9, <1>10 DEF Shape

\* No connection is made at the start.
LEMMA FeedsInit == Feeds!Init => FeedsInv
<1> SUFFICES ASSUME Feeds!Init PROVE FeedsInv OBVIOUS
<1> USE FeedAssumption DEF Feeds!Conns
<1>1. FeedTypes BY DEF Feeds!Init, FeedTypes, Items, Asked
<1>2. NotMade BY DEF Feeds!Init, NotMade
<1>3. Own BY DEF Feeds!Init, Own
<1>4. Chain BY DEF Feeds!Init, Chain, Read
<1>5. InLine /\ Older BY DEF Feeds!Init, InLine, Older
<1> QED BY <1>1, <1>2, <1>3, <1>4, <1>5 DEF FeedsInv

\* The steps of the loop and of the operator that touch no packet.
LEMMA FeedsQuiet ==
  ASSUME FeedsInv, FeedTypes', UNCHANGED <<conn, sees, strays, taken, calls, queues, packets, ingested>>,
         \A c \in Feeds!Conns : consumer[c] \in {"none", "ended"} => consumer'[c] = consumer[c]
  PROVE  FeedsInv'
<1>1. NotMade' BY DEF FeedsInv, NotMade
<1>2. Own' BY DEF FeedsInv, Own, Mine, FeedTypes
<1>3. Chain' BY DEF FeedsInv, Chain, Read
<1>4. InLine' BY DEF FeedsInv, InLine, Feeds!Ordered
<1>5. conn # 0 => conn \in Feeds!Conns BY FeedAssumption DEF FeedsInv, FeedTypes, Feeds!Conns
<1>6. Older' BY <1>5 DEF FeedsInv, Older, Mine, FeedTypes
<1> QED BY <1>1, <1>2, <1>3, <1>4, <1>6 DEF FeedsInv

\* A consumer reads the next packet, and asks the event loop to queue it.
LEMMA OnPacketStep ==
  ASSUME FeedsInv, NEW c \in Feeds!Conns, Feeds!OnPacket(c)
  PROVE  FeedsInv'
<1>0. Shape /\ FeedTypes /\ NotMade /\ Own /\ Chain /\ InLine /\ Older BY FeedsShape DEF FeedsInv
<1> DEFINE call == [n |-> taken[c] + 1, to |-> sees[c]]
<1>1. /\ consumer[c] = "reading" /\ taken[c] < packets /\ taken' = [taken EXCEPT ![c] = taken[c] + 1]
      /\ calls' = [calls EXCEPT ![c] = Append(calls[c], call)]
      /\ UNCHANGED <<conn, step, first, sees, strays, consumer, queues, packets, ingested>>
  BY <1>0 DEF Feeds!OnPacket, Feeds!feed, FeedTypes
<1>2. c <= conn /\ conn \in Feeds!Conns /\ sees[c] \in c .. conn /\ taken[c] \in Nat /\ call \in Asked
  <2>1. c <= conn BY <1>0, <1>1 DEF NotMade, Shape
  <2>2. sees[c] \in c .. conn BY <1>0, <2>1 DEF NotMade, Shape
  <2>3. sees[c] \in Feeds!Conns /\ conn \in Feeds!Conns BY <1>0, <2>1, <2>2 DEF Shape, Feeds!Conns
  <2>4. taken[c] \in Nat BY <1>0 DEF Shape
  <2> QED BY <2>1, <2>2, <2>3, <2>4 DEF Asked
<1>3. /\ Append(calls[c], call) \in Seq(Asked) /\ Len(calls[c]) \in Nat
      /\ DOMAIN calls[c] = 1 .. Len(calls[c]) /\ DOMAIN Append(calls[c], call) = 1 .. Len(calls[c]) + 1
      /\ \A i \in DOMAIN calls[c] : Append(calls[c], call)[i] = calls[c][i]
      /\ Append(calls[c], call)[Len(calls[c]) + 1] = call
  <2>1. calls[c] \in Seq(Asked) /\ call \in Asked BY <1>0, <1>2 DEF Shape
  <2> HIDE DEF call
  <2> QED BY <2>1, AppendOf
<1>4. /\ calls' \in [Feeds!Conns -> Seq(Asked)] /\ taken' \in [Feeds!Conns -> Nat]
      /\ calls'[c] = Append(calls[c], call) /\ taken'[c] = taken[c] + 1
      /\ \A d \in Feeds!Conns \ {c} : calls'[d] = calls[d] /\ taken'[d] = taken[d]
  <2>1. calls \in [Feeds!Conns -> Seq(Asked)] /\ taken \in [Feeds!Conns -> Nat] BY <1>0 DEF FeedTypes
  <2>2. Append(calls[c], call) \in Seq(Asked) BY <1>3
  <2>3. calls' \in [Feeds!Conns -> Seq(Asked)] BY <1>1, <2>1, <2>2
  <2>4. taken' \in [Feeds!Conns -> Nat] BY <1>1, <1>2, <2>1
  <2>5. calls'[c] = Append(calls[c], call) /\ taken'[c] = taken[c] + 1 BY <1>1, <2>1
  <2>6. \A d \in Feeds!Conns \ {c} : calls'[d] = calls[d] /\ taken'[d] = taken[d] BY <1>1, <2>1
  <2> QED BY <2>3, <2>4, <2>5, <2>6
<1>5. ASSUME NEW d \in Feeds!Conns, NEW j \in DOMAIN calls'[d]
      PROVE  \/ j \in DOMAIN calls[d] /\ calls'[d][j] = calls[d][j]
             \/ d = c /\ j = Len(calls[c]) + 1 /\ calls'[d][j] = call
  <2>1. CASE d = c
    <3>1. DOMAIN calls'[d] = 1 .. Len(calls[c]) + 1 BY <1>3, <1>4, <2>1
    <3>2. j \in 1 .. Len(calls[c]) \/ j = Len(calls[c]) + 1 BY <1>3, <1>5, <3>1
    <3>3. calls'[d][j] = Append(calls[c], call)[j] BY <1>4, <2>1
    <3> QED BY <1>3, <2>1, <3>2, <3>3
  <2>2. CASE d # c BY <1>4, <1>5, <2>2
  <2> QED BY <2>1, <2>2
<1> HIDE DEF call
<1>6. call.n = taken[c] + 1 /\ call.to = sees[c] BY  DEF call
<1>7. FeedTypes' BY <1>0, <1>1, <1>4 DEF FeedTypes, Shape
<1>8. NotMade'
  <2>1. \A d \in Feeds!Conns : d > conn => consumer[d] = "none" /\ calls'[d] = <<>> /\ queues[d] = <<>>
    <3>1. \A d \in Feeds!Conns : d > conn => d # c BY <1>0, <1>2 DEF Shape
    <3> QED BY <1>0, <1>4, <3>1 DEF NotMade
  <2>2. \A d \in Feeds!Conns : \A i \in DOMAIN calls'[d] : calls'[d][i].to <= conn
    <3>1. call.to <= conn BY <1>0, <1>2, <1>6 DEF Shape
    <3> QED BY <1>0, <1>5, <3>1 DEF Shape
  <2> QED BY <1>0, <1>1, <2>1, <2>2 DEF NotMade
<1>9. Own'
  <2>1. sees[c] = conn => Mine(c) BY <1>0, <1>1, <1>2 DEF Own, Shape
  <2> QED BY <1>0, <1>1, <1>5, <1>6, <2>1 DEF Own, Mine, Shape
<1>10. Chain'
  <2> DEFINE ReadNow(d, n) == n <= taken'[d] /\ \A j \in DOMAIN calls'[d] : n < calls'[d][j].n
  <2>1. ASSUME NEW d \in Feeds!Conns, NEW n \in Nat, Read(d, n) PROVE ReadNow(d, n)
    <3>1. n <= taken[d] /\ taken[d] \in Nat BY <1>0, <2>1 DEF Read, Shape
    <3>2. CASE d = c
      <4>1. taken'[d] = taken[d] + 1 /\ n <= taken'[d] /\ n < call.n BY <1>4, <1>6, <2>1, <3>1, <3>2
      <4>2. \A j \in DOMAIN calls'[d] : n < calls'[d][j].n BY <1>5, <2>1, <3>2, <4>1 DEF Read
      <4> QED BY <4>1, <4>2
    <3>3. CASE d # c BY <1>4, <2>1, <3>1, <3>3 DEF Read
    <3> QED BY <3>2, <3>3
  <2> HIDE DEF ReadNow
  <2>2. \A i \in DOMAIN ingested : ReadNow(ingested[i].by, ingested[i].n)
    BY <1>0, <2>1 DEF Chain, Shape
  <2>3. \A i \in DOMAIN queues[conn] : ReadNow(queues[conn][i].by, queues[conn][i].n)
    BY <1>0, <1>2, <2>1 DEF Chain, Shape
  <2>4. ASSUME NEW d \in Feeds!Conns, NEW i \in DOMAIN calls'[d]
        PROVE  /\ calls'[d][i].n <= taken'[d]
               /\ \A j \in DOMAIN calls'[d] : i < j => calls'[d][i].n < calls'[d][j].n
    <3>1. taken[d] \in Nat /\ calls[d] \in Seq(Asked) BY <1>0 DEF Shape
    <3>2. \A k \in DOMAIN calls[d] : calls[d][k].n <= taken[d] /\ calls[d][k].n \in Nat
      BY <1>0, <3>1 DEF Chain, Asked, Shape
    <3>3. \A k, j \in DOMAIN calls[d] : k < j => calls[d][k].n < calls[d][j].n
      BY <1>0 DEF Chain, Shape
    <3>4. CASE d = c
      <4>1. \A j \in DOMAIN calls'[d] : j \in DOMAIN calls[d] \/ j = Len(calls[d]) + 1 BY <1>3, <1>4, <3>4
      <4>2. /\ \A j \in DOMAIN calls[d] : calls'[d][j] = calls[d][j]
            /\ calls'[d][Len(calls[d]) + 1].n = taken[d] + 1 /\ taken'[d] = taken[d] + 1
        BY <1>3, <1>4, <1>6, <3>4
      <4>3. \A j \in DOMAIN calls[d] : j < Len(calls[d]) + 1 /\ j \in Nat /\ Len(calls[d]) \in Nat
        BY <1>3, <3>4
      <4> QED BY <2>4, <3>1, <3>2, <3>3, <4>1, <4>2, <4>3
    <3>5. CASE d # c BY <1>4, <2>4, <3>2, <3>3, <3>5
    <3> QED BY <3>4, <3>5
  <2>5. \A d \in Feeds!Conns : taken'[d] <= packets
    BY <1>0, <1>1, <1>2, <1>4 DEF Chain, Shape
  <2> QED BY <1>1, <2>2, <2>3, <2>4, <2>5, Zenon DEF Chain, Read, ReadNow
<1>11. InLine' BY <1>0, <1>1 DEF InLine, Feeds!Ordered, Shape
<1>12. Older'
  <2>1. ASSUME NEW i \in DOMAIN ingested, ~Mine(ingested[i].by)
        PROVE  /\ consumer[conn] # "none" => ingested[i].n <= taken'[conn]
               /\ \A j \in DOMAIN calls'[conn] : ingested[i].n < calls'[conn][j].n
    <3>1. ingested[i].n \in Nat /\ taken[conn] \in Nat BY <1>0, <1>2 DEF Shape
    <3>2. /\ consumer[conn] # "none" => ingested[i].n <= taken[conn]
          /\ \A j \in DOMAIN calls[conn] : ingested[i].n < calls[conn][j].n
      BY <1>0, <1>2, <2>1 DEF Older, Shape
    <3>3. CASE c = conn BY <1>1, <1>4, <1>5, <1>6, <3>1, <3>2, <3>3
    <3>4. CASE c # conn BY <1>2, <1>4, <3>2, <3>4
    <3> QED BY <3>3, <3>4
  <2> QED BY <1>1, <2>1 DEF Older, Mine
<1> QED BY <1>7, <1>8, <1>9, <1>10, <1>11, <1>12 DEF FeedsInv

\* The event loop queues it, where the callback said.
LEMMA PutNowaitStep ==
  ASSUME FeedsInv, NEW c \in Feeds!Conns, Feeds!PutNowait(c)
  PROVE  FeedsInv'
<1>0. Shape /\ FeedTypes /\ NotMade /\ Own /\ Chain /\ InLine /\ Older BY FeedsShape DEF FeedsInv
<1> DEFINE call == Head(calls[c])
           e == [n |-> call.n, by |-> c]
<1>1. /\ calls[c] # <<>> /\ calls' = [calls EXCEPT ![c] = Tail(calls[c])]
      /\ queues' = queues \/ queues' = [queues EXCEPT ![call.to] = Append(queues[call.to], e)]
      /\ UNCHANGED <<conn, step, first, sees, strays, consumer, taken, packets, ingested>>
  BY <1>0 DEF Feeds!PutNowait, Feeds!feed, Shape
<1>2. /\ Tail(calls[c]) \in Seq(Asked) /\ call \in Asked /\ 1 \in DOMAIN calls[c] /\ call = calls[c][1]
      /\ \A i \in DOMAIN Tail(calls[c]) :
           i \in Nat \ {0} /\ i + 1 \in DOMAIN calls[c] /\ Tail(calls[c])[i] = calls[c][i + 1]
  BY <1>0, <1>1, TailOf DEF Shape
<1>3. call.to \in Feeds!Conns /\ call.n \in Nat /\ call.to <= conn /\ c <= conn /\ conn \in Feeds!Conns /\ e \in Items
  <2>1. call.to \in Feeds!Conns /\ call.n \in Nat /\ e \in Items BY <1>2 DEF Asked, Items
  <2>2. call.to <= conn /\ c <= conn BY <1>0, <1>1, <1>2 DEF NotMade, Shape
  <2>3. conn \in Feeds!Conns BY <1>0, <2>2 DEF Shape
  <2> QED BY <2>1, <2>2, <2>3
<1>4. /\ calls' \in [Feeds!Conns -> Seq(Asked)] /\ calls'[c] = Tail(calls[c])
      /\ \A d \in Feeds!Conns \ {c} : calls'[d] = calls[d]
  BY <1>0, <1>1, <1>2 DEF FeedTypes
<1>5. ASSUME NEW d \in Feeds!Conns, NEW j \in DOMAIN calls'[d]
      PROVE  \/ d # c /\ j \in DOMAIN calls[d] /\ calls'[d][j] = calls[d][j]
             \/ d = c /\ j \in Nat \ {0} /\ j + 1 \in DOMAIN calls[d] /\ calls'[d][j] = calls[d][j + 1]
  BY <1>2, <1>4, <1>5
<1>6. /\ call.n <= taken[c] /\ \A j \in DOMAIN calls'[c] : call.n < calls'[c][j].n
      /\ call.to = conn => Mine(c)
  BY <1>0, <1>2, <1>3, <1>5 DEF Chain, Own, Shape
<1>7. /\ e.n = call.n /\ e.by = c
      /\ \A n \in Nat : Read(c, n) => n < e.n
  BY <1>2 DEF Read
<1> DEFINE q == queues[conn]
<1>8. /\ Append(q, e) \in Seq(Items) /\ Len(q) \in Nat /\ q \in Seq(Items)
      /\ DOMAIN q = 1 .. Len(q) /\ DOMAIN Append(q, e) = 1 .. Len(q) + 1
      /\ \A i \in DOMAIN q : Append(q, e)[i] = q[i]
      /\ Append(q, e)[Len(q) + 1] = e
  BY <1>0, <1>3, AppendOf DEF Shape
<1>9. queues' \in [Feeds!Conns -> Seq(Items)]
  <2>1. queues[call.to] \in Seq(Items) BY <1>0, <1>3 DEF Shape
  <2>2. Append(queues[call.to], e) \in Seq(Items) BY <1>3, <2>1, AppendOf
  <2> QED BY <1>0, <1>1, <1>3, <2>2 DEF FeedTypes
<1>10. queues'[conn] = q \/ (call.to = conn /\ queues'[conn] = Append(q, e))
  BY <1>0, <1>1, <1>3 DEF FeedTypes
<1>11. \A d \in Feeds!Conns : d > conn => queues'[d] = queues[d]
  <2> SUFFICES ASSUME NEW d \in Feeds!Conns, d > conn PROVE queues'[d] = queues[d] OBVIOUS
  <2>1. d # call.to BY <1>3 DEF Feeds!Conns
  <2>2. queues \in [Feeds!Conns -> Seq(Items)] BY <1>0 DEF FeedTypes
  <2> QED BY <1>1, <2>1, <2>2
<1> HIDE DEF call, e, q
<1>12. FeedTypes' BY <1>0, <1>1, <1>4, <1>9 DEF FeedTypes, Shape
<1>13. NotMade' BY <1>0, <1>1, <1>3, <1>4, <1>5, <1>11 DEF NotMade, Shape
<1>14. ASSUME NEW i \in DOMAIN queues'[conn]
       PROVE  \/ i \in DOMAIN q /\ queues'[conn][i] = q[i]
              \/ i = Len(q) + 1 /\ queues'[conn][i] = e /\ call.to = conn
  BY <1>8, <1>10
<1>15. Own'
  <2>1. \A i \in DOMAIN q : Mine(q[i].by) BY <1>0, <1>3 DEF Own, q, Shape
  <2> QED BY <1>0, <1>1, <1>5, <1>6, <1>7, <1>14, <2>1 DEF Own, Mine, Shape
<1>16. Chain'
  <2> DEFINE ReadNow(d, n) == n <= taken[d] /\ \A j \in DOMAIN calls'[d] : n < calls'[d][j].n
  <2>1. ASSUME NEW d \in Feeds!Conns, NEW n, Read(d, n) PROVE ReadNow(d, n)
    BY <1>5, <2>1 DEF Read
  <2>2. ReadNow(c, e.n) BY <1>6, <1>7
  <2> HIDE DEF ReadNow
  <2>3. \A i \in DOMAIN ingested : ReadNow(ingested[i].by, ingested[i].n)
    BY <1>0, <2>1 DEF Chain, Shape
  <2>4. \A i \in DOMAIN queues'[conn] : ReadNow(queues'[conn][i].by, queues'[conn][i].n)
    <3>1. \A i \in DOMAIN q : q[i].by \in Feeds!Conns /\ Read(q[i].by, q[i].n)
      BY <1>0, <1>3 DEF Chain, q, Shape
    <3>2. \A i \in DOMAIN q : ReadNow(q[i].by, q[i].n) BY <2>1, <3>1
    <3> QED BY <1>7, <1>14, <2>2, <3>2
  <2>5. \A d \in Feeds!Conns : \A i \in DOMAIN calls'[d] :
          /\ calls'[d][i].n <= taken[d]
          /\ \A j \in DOMAIN calls'[d] : i < j => calls'[d][i].n < calls'[d][j].n
    <3> SUFFICES ASSUME NEW d \in Feeds!Conns, NEW i \in DOMAIN calls'[d]
                 PROVE  /\ calls'[d][i].n <= taken[d]
                        /\ \A j \in DOMAIN calls'[d] : i < j => calls'[d][i].n < calls'[d][j].n
      OBVIOUS
    <3>1. CASE d # c
      <4>1. \A j \in DOMAIN calls'[d] : j \in DOMAIN calls[d] /\ calls'[d][j] = calls[d][j] BY <1>5, <3>1
      <4> QED BY <1>0, <4>1 DEF Chain
    <3>2. CASE d = c
      <4>1. \A j \in DOMAIN calls'[d] :
              j \in Nat \ {0} /\ j + 1 \in DOMAIN calls[d] /\ calls'[d][j] = calls[d][j + 1]
        BY <1>5, <3>2
      <4> QED BY <1>0, <4>1 DEF Chain
    <3> QED BY <3>1, <3>2
  <2>6. \A d \in Feeds!Conns : taken[d] <= packets BY <1>0 DEF Chain
  <2> QED BY <1>1, <2>3, <2>4, <2>5, <2>6 DEF Chain, Read, ReadNow
<1>17. InLine'
  <2>1. ASSUME NEW i \in DOMAIN ingested, call.to = conn PROVE Feeds!Ordered(ingested[i], e)
    <3>1. ingested[i] \in Items /\ ingested[i].n \in Nat BY <1>0 DEF Shape
    <3>2. CASE ingested[i].by = c
      <4>1. Read(c, ingested[i].n) BY <1>0, <3>2 DEF Chain, Shape
      <4> QED BY <1>7, <3>1, <4>1 DEF Feeds!Ordered
    <3>3. CASE ingested[i].by # c /\ ~Mine(ingested[i].by) /\ c = conn
      <4>1. ingested[i].n < calls[conn][1].n BY <1>0, <1>2, <1>3, <3>3 DEF Older, Shape
      <4> QED BY <1>2, <1>7, <3>3, <4>1 DEF Feeds!Ordered
    <3> QED BY <1>6, <1>7, <2>1, <3>2, <3>3 DEF Feeds!Ordered, Mine
  <2>2. ASSUME NEW i \in DOMAIN q, call.to = conn PROVE Feeds!Ordered(q[i], e)
    <3>1. q[i] \in Items /\ q[i].n \in Nat /\ Mine(q[i].by) /\ Read(q[i].by, q[i].n)
      BY <1>0, <1>3, <1>8, <2>2 DEF Own, Chain, q, Items, Shape
    <3>2. CASE q[i].by = c BY <1>7, <3>1, <3>2 DEF Feeds!Ordered
    <3>3. CASE q[i].by # c BY <1>6, <1>7, <2>2, <3>1, <3>3 DEF Feeds!Ordered, Mine
    <3> QED BY <3>2, <3>3
  <2>3. /\ \A i, j \in DOMAIN ingested : i < j => Feeds!Ordered(ingested[i], ingested[j])
        /\ \A i \in DOMAIN ingested, j \in DOMAIN q : Feeds!Ordered(ingested[i], q[j])
        /\ \A i, j \in DOMAIN q : i < j => Feeds!Ordered(q[i], q[j])
    BY <1>0, <1>3 DEF InLine, q, Shape
  <2>4. \A i \in DOMAIN ingested, j \in DOMAIN queues'[conn] : Feeds!Ordered(ingested[i], queues'[conn][j])
    BY <1>14, <2>1, <2>3
  <2>5. \A i, j \in DOMAIN queues'[conn] : i < j => Feeds!Ordered(queues'[conn][i], queues'[conn][j])
    <3> SUFFICES ASSUME NEW i \in DOMAIN queues'[conn], NEW j \in DOMAIN queues'[conn], i < j
                 PROVE  Feeds!Ordered(queues'[conn][i], queues'[conn][j])
      OBVIOUS
    <3>1. i \in DOMAIN q /\ queues'[conn][i] = q[i] BY <1>8, <1>14
    <3> QED BY <1>14, <2>2, <2>3, <3>1
  <2> QED BY <1>1, <2>3, <2>4, <2>5 DEF InLine, Feeds!Ordered
<1>18. Older' BY <1>0, <1>1, <1>3, <1>5 DEF Older, Mine, Shape
<1> QED BY <1>12, <1>13, <1>15, <1>16, <1>17, <1>18 DEF FeedsInv

\* The loop binds a queue for the next connection.
LEMMA BindStep ==
  ASSUME FeedsInv, Feeds!Bind
  PROVE  FeedsInv'
<1>0. Shape /\ FeedTypes /\ NotMade /\ Own /\ Chain /\ InLine /\ Older BY FeedsShape DEF FeedsInv
<1>1. /\ conn' = conn + 1 /\ conn' \in Feeds!Conns /\ step' = "connecting"
      /\ sees' = [d \in Feeds!Conns |-> IF d \in first .. conn' THEN conn' ELSE sees[d]]
      /\ strays' = strays \cup {d \in first .. conn : consumer[d] \in {"reading", "retrying"}}
      /\ UNCHANGED <<first, consumer, taken, calls, queues, packets, ingested>>
  BY <1>0 DEF Feeds!Bind, Feeds!Sharers, Feeds!traffic, Feeds!Conns, Shape
<1>2. FeedTypes'
  <2>1. conn' \in 0 .. MaxConns /\ conn' # 0 /\ first' \in 1 .. conn' + 1
    BY <1>0, <1>1 DEF Feeds!Conns, Shape
  <2>2. sees' \in [Feeds!Conns -> 0 .. MaxConns] BY <1>0, <1>1, <2>1 DEF FeedTypes
  <2>3. strays' \in SUBSET Feeds!Conns
    <3>1. first .. conn \subseteq Feeds!Conns BY <1>0 DEF Feeds!Conns, Shape
    <3> QED BY <1>0, <1>1, <3>1 DEF FeedTypes
  <2> QED BY <1>0, <1>1, <2>1, <2>2, <2>3 DEF FeedTypes
<1>3. \A d \in Feeds!Conns : d > conn' => d > conn BY <1>0, <1>1 DEF Shape
<1>4. queues[conn'] = <<>> /\ calls[conn'] = <<>> /\ consumer[conn'] = "none"
  BY <1>0, <1>1 DEF NotMade, Shape
<1>5. NotMade'
  <2>1. \A d \in Feeds!Conns : d > conn' => consumer'[d] = "none" /\ calls'[d] = <<>> /\ queues'[d] = <<>>
    BY <1>0, <1>1, <1>3 DEF NotMade, Shape
  <2>2. \A d \in Feeds!Conns : d <= conn' => sees'[d] \in d .. conn'
    <3> SUFFICES ASSUME NEW d \in Feeds!Conns, d <= conn' PROVE sees'[d] \in d .. conn' OBVIOUS
    <3>1. sees'[d] = conn' \/ (sees'[d] = sees[d] /\ d # conn')
      BY <1>0, <1>1 DEF Shape
    <3>2. CASE sees'[d] = conn' BY <1>0, <1>1, <3>2 DEF Shape
    <3>3. CASE sees'[d] = sees[d] /\ d # conn'
      <4>1. d <= conn BY <1>0, <1>1, <3>3 DEF Shape
      <4>2. sees[d] \in d .. conn BY <1>0, <4>1 DEF NotMade
      <4> QED BY <1>0, <1>1, <3>3, <4>2 DEF Shape
    <3> QED BY <3>1, <3>2, <3>3
  <2>3. \A d \in Feeds!Conns : \A i \in DOMAIN calls[d] : calls[d][i].to <= conn'
    <3>1. \A d \in Feeds!Conns : d \in Nat BY <1>0 DEF Shape
    <3>2. \A k \in Feeds!Conns : k <= conn => k <= conn' BY <1>0, <1>1, <3>1 DEF Shape
    <3> QED BY <1>0, <3>2 DEF Shape
  <2> QED BY <1>1, <2>1, <2>2, <2>3 DEF NotMade
<1>6. Own'
  <2>1. ASSUME NEW d \in Feeds!Conns, d <= conn', sees'[d] = conn', ~Mine(d)' PROVE consumer[d] \in {"none", "ended"}
    <3>1. d <= conn BY <1>0, <1>1, <2>1 DEF Mine, Shape
    <3>2. sees[d] # conn'
      <4>1. sees[d] \in d .. conn BY <1>0, <3>1 DEF NotMade
      <4> QED BY <1>0, <1>1, <4>1 DEF Shape
    <3>3. d \in first .. conn
      <4>1. d \in first .. conn' BY <1>1, <2>1, <3>2
      <4> QED BY <1>0, <3>1, <4>1 DEF Shape
    <3>4. consumer[d] \notin {"reading", "retrying"} BY <1>1, <2>1, <3>3 DEF Mine
    <3>5. consumer[d] \in {"none", "reading", "retrying", "ended"} BY <1>0 DEF FeedTypes
    <3> QED BY <3>4, <3>5
  <2>2. \A d \in Feeds!Conns : \A i \in DOMAIN calls[d] : calls[d][i].to # conn'
    <3> SUFFICES ASSUME NEW d \in Feeds!Conns, NEW i \in DOMAIN calls[d] PROVE calls[d][i].to # conn' OBVIOUS
    <3>1. calls[d][i].to <= conn BY <1>0 DEF NotMade
    <3>2. conn \in Nat /\ calls[d][i].to \in Feeds!Conns BY <1>0 DEF Shape
    <3>3. calls[d][i].to \in Nat BY <3>2 DEF Feeds!Conns
    <3>4. conn' = conn + 1 BY <1>1
    <3> QED BY <3>1, <3>2, <3>3, <3>4
  <2> QED BY <1>1, <1>4, <2>1, <2>2 DEF Own
<1>7. Chain' BY <1>0, <1>1, <1>4 DEF Chain, Read, Shape
<1>8. InLine'
  <2>1. \A d, f \in Items : Feeds!Ordered(d, f) => Feeds!Ordered(d, f)' BY <1>1 DEF Feeds!Ordered
  <2> QED BY <1>0, <1>1, <1>4, <2>1 DEF InLine, Shape
<1>9. Older' BY <1>1, <1>4 DEF Older
<1> QED BY <1>2, <1>5, <1>6, <1>7, <1>8, <1>9 DEF FeedsInv

\* The loop ingests the first of its queue.
LEMMA IngestStep ==
  ASSUME FeedsInv, Feeds!Ingest
  PROVE  FeedsInv'
<1>0. Shape /\ FeedTypes /\ NotMade /\ Own /\ Chain /\ InLine /\ Older BY FeedsShape DEF FeedsInv
<1> DEFINE q == queues[conn]
           e == Head(q)
<1>1. /\ conn \in Feeds!Conns /\ q # <<>> /\ step' = "ingesting"
      /\ ingested' = Append(ingested, e) /\ queues' = [queues EXCEPT ![conn] = Tail(q)]
      /\ UNCHANGED <<conn, first, sees, strays, consumer, taken, calls, packets>>
  BY <1>0 DEF Feeds!Ingest, FeedTypes, Shape
<1>2. /\ Tail(q) \in Seq(Items) /\ e \in Items /\ 1 \in DOMAIN q /\ e = q[1]
      /\ \A i \in DOMAIN Tail(q) : i \in Nat \ {0} /\ i + 1 \in DOMAIN q /\ Tail(q)[i] = q[i + 1]
  BY <1>0, <1>1, TailOf DEF Shape
<1>3. /\ Append(ingested, e) \in Seq(Items) /\ Len(ingested) \in Nat
      /\ DOMAIN ingested = 1 .. Len(ingested) /\ DOMAIN Append(ingested, e) = 1 .. Len(ingested) + 1
      /\ \A i \in DOMAIN ingested : Append(ingested, e)[i] = ingested[i]
      /\ Append(ingested, e)[Len(ingested) + 1] = e
  <2>1. ingested \in Seq(Items) BY <1>0 DEF FeedTypes
  <2> QED BY <1>2, <2>1, AppendOf
<1>4. /\ queues' \in [Feeds!Conns -> Seq(Items)] /\ queues'[conn] = Tail(q)
      /\ \A d \in Feeds!Conns \ {conn} : queues'[d] = queues[d]
  BY <1>0, <1>1, <1>2 DEF FeedTypes
<1>5. ASSUME NEW i \in DOMAIN queues'[conn]
      PROVE  i \in Nat \ {0} /\ i + 1 \in DOMAIN q /\ queues'[conn][i] = q[i + 1]
  BY <1>2, <1>4
<1>6. ASSUME NEW i \in DOMAIN ingested'
      PROVE  \/ i \in DOMAIN ingested /\ ingested'[i] = ingested[i]
             \/ i = Len(ingested) + 1 /\ ingested'[i] = e
  BY <1>1, <1>3
<1>7. /\ \A i \in DOMAIN q : Mine(q[i].by) /\ Read(q[i].by, q[i].n)
      /\ \A i, j \in DOMAIN ingested : i < j => Feeds!Ordered(ingested[i], ingested[j])
      /\ \A i \in DOMAIN ingested, j \in DOMAIN q : Feeds!Ordered(ingested[i], q[j])
      /\ \A i, j \in DOMAIN q : i < j => Feeds!Ordered(q[i], q[j])
  BY <1>0, <1>1 DEF Own, Chain, InLine, Shape
<1> HIDE DEF q, e
<1>8. FeedTypes' BY <1>0, <1>1, <1>3, <1>4 DEF FeedTypes, Shape
<1>9. NotMade' BY <1>0, <1>1, <1>4 DEF NotMade, Shape
<1>10. Own' BY <1>0, <1>1, <1>5, <1>7 DEF Own, Mine, Shape
<1>11. Chain'
  <2>1. \A i \in DOMAIN ingested' : Read(ingested'[i].by, ingested'[i].n)
    BY <1>0, <1>2, <1>6, <1>7 DEF Chain
  <2>2. \A i \in DOMAIN queues'[conn] : Read(queues'[conn][i].by, queues'[conn][i].n)
    BY <1>5, <1>7
  <2> QED BY <1>0, <1>1, <2>1, <2>2 DEF Chain, Read
<1>12. InLine'
  <2>1. ASSUME NEW i \in DOMAIN ingested', NEW j \in DOMAIN ingested', i < j
        PROVE  Feeds!Ordered(ingested'[i], ingested'[j])
    BY <1>2, <1>3, <1>6, <1>7, <2>1
  <2>2. \A i \in DOMAIN ingested', j \in DOMAIN queues'[conn] : Feeds!Ordered(ingested'[i], queues'[conn][j])
    BY <1>2, <1>5, <1>6, <1>7
  <2>3. \A i, j \in DOMAIN queues'[conn] : i < j => Feeds!Ordered(queues'[conn][i], queues'[conn][j])
    BY <1>5, <1>7
  <2> QED BY <1>1, <2>1, <2>2, <2>3 DEF InLine, Feeds!Ordered
<1>13. Older' BY <1>0, <1>1, <1>2, <1>6, <1>7 DEF Older, Mine, Shape
<1> QED BY <1>8, <1>9, <1>10, <1>11, <1>12, <1>13 DEF FeedsInv

\* A consumer connects: what it reads from then on is newer than all that was ingested.
LEMMA ReconnectStep ==
  ASSUME FeedsInv, NEW c \in Feeds!Conns, taken' = [taken EXCEPT ![c] = packets],
         consumer' = [consumer EXCEPT ![c] = "reading"], c = conn \/ consumer[c] = "retrying",
         FeedTypes', UNCHANGED <<conn, sees, strays, calls, queues, packets, ingested>>
  PROVE  FeedsInv'
<1>0. Shape /\ FeedTypes /\ NotMade /\ Own /\ Chain /\ InLine /\ Older BY FeedsShape DEF FeedsInv
<1>1. /\ taken'[c] = packets /\ taken[c] <= packets /\ packets \in Nat
      /\ \A d \in Feeds!Conns \ {c} : taken'[d] = taken[d] /\ consumer'[d] = consumer[d]
      /\ \A d \in Feeds!Conns : taken[d] \in Nat /\ taken[d] <= taken'[d] /\ taken'[d] <= packets
      /\ \A d \in Feeds!Conns : taken[d] <= packets
  BY <1>0 DEF FeedTypes, Shape
<1>2. c <= conn /\ conn \in Nat BY <1>0 DEF NotMade, Shape
<1>3. NotMade' BY <1>0, <1>1, <1>2 DEF NotMade, Shape
<1>4. Own' BY <1>0, <1>1 DEF Own, Mine, Shape
<1>5. ASSUME NEW d \in Feeds!Conns, NEW n \in Nat, Read(d, n) PROVE Read(d, n)' BY <1>1, <1>5 DEF Read
<1>6. Chain'
  <2>1. \A i \in DOMAIN ingested : Read(ingested[i].by, ingested[i].n)'
    BY <1>0, <1>5 DEF Chain, Shape
  <2>2. conn # 0 => \A i \in DOMAIN queues[conn] : Read(queues[conn][i].by, queues[conn][i].n)'
    BY <1>0, <1>5 DEF Chain, Shape
  <2>3. \A d \in Feeds!Conns : \A i \in DOMAIN calls[d] :
          calls[d][i].n \in Nat /\ calls[d][i].n <= taken'[d]
    BY <1>0, <1>1 DEF Chain, Shape
  <2> QED BY <1>0, <1>1, <2>1, <2>2, <2>3 DEF Chain, Read, Shape
<1>7. InLine' BY <1>0 DEF InLine, Feeds!Ordered, Shape
<1>8. Older'
  <2>1. \A i \in DOMAIN ingested : ingested[i].n \in Nat /\ ingested[i].n <= packets
    BY <1>0, <1>1 DEF Chain, Read, Shape
  <2>2. CASE c = conn BY <1>0, <1>1, <2>1, <2>2 DEF Older, Mine, Shape
  <2>3. CASE c # conn BY <1>0, <1>1, <2>3 DEF Older, Mine, Shape
  <2> QED BY <2>2, <2>3
<1> QED BY <1>3, <1>4, <1>6, <1>7, <1>8 DEF FeedsInv

\* The threads of the connections and the loop keep the invariant.
LEMMA FeedsStep == FeedsInv /\ [Feeds!Next]_feeds => FeedsInv'
<1> SUFFICES ASSUME FeedsInv, [Feeds!Next]_feeds PROVE FeedsInv' OBVIOUS
<1>0. Shape /\ FeedTypes /\ NotMade /\ Own /\ Chain /\ InLine /\ Older BY FeedsShape DEF FeedsInv
<1>1. CASE Feeds!Send
  <2>1. /\ packets' = packets + 1
        /\ UNCHANGED <<conn, step, first, sees, strays, consumer, taken, calls, queues, ingested>>
    BY <1>1 DEF Feeds!Send, Feeds!feed
  <2>2. FeedTypes' BY <1>0, <2>1 DEF FeedTypes, Shape
  <2>3. NotMade' /\ Own' BY <1>0, <2>1 DEF NotMade, Own, Mine, Shape
  <2>4. Chain' BY <1>0, <2>1 DEF Chain, Read, FeedTypes, Shape
  <2>5. InLine' BY <1>0, <2>1 DEF InLine, Feeds!Ordered, Shape
  <2>6. Older' BY <1>0, <2>1 DEF Older, Mine, Shape
  <2> QED BY <2>2, <2>3, <2>4, <2>5, <2>6 DEF FeedsInv
<1>2. ASSUME NEW c \in Feeds!Conns, Feeds!ThreadMoves(c) PROVE FeedsInv'
  <2>1. CASE Feeds!Move(c, "retrying", "reading") /\ taken' = [taken EXCEPT ![c] = packets]
    <3>1. /\ consumer[c] = "retrying" /\ consumer' = [consumer EXCEPT ![c] = "reading"]
          /\ UNCHANGED <<conn, step, first, sees, strays, calls, queues, packets, ingested>>
      BY <2>1 DEF Feeds!Move, Feeds!feed
    <3>2. FeedTypes' BY <1>0, <2>1, <3>1 DEF FeedTypes, Shape
    <3> QED BY <2>1, <3>1, <3>2, ReconnectStep
  <2>2. ASSUME NEW to \in {"retrying", "ended"}, Feeds!Move(c, "reading", to), UNCHANGED taken
        PROVE  FeedsInv'
    <3>1. /\ consumer[c] = "reading" /\ consumer' = [consumer EXCEPT ![c] = to]
          /\ UNCHANGED <<conn, step, first, sees, strays, taken, calls, queues, packets, ingested>>
      BY <2>2 DEF Feeds!Move, Feeds!feed
    <3>2. FeedTypes' BY <1>0, <3>1 DEF FeedTypes, Shape
    <3> QED BY <1>0, <3>1, <3>2, FeedsQuiet DEF FeedTypes, Shape
  <2> QED BY <1>2, <2>1, <2>2 DEF Feeds!ThreadMoves
<1>3. ASSUME NEW c \in Feeds!Conns, Feeds!OnPacket(c) \/ Feeds!PutNowait(c) PROVE FeedsInv'
  BY <1>3, OnPacketStep, PutNowaitStep
<1>4. ASSUME UNCHANGED <<conn, sees, strays, consumer, taken, calls, queues, packets, ingested>>, FeedTypes'
      PROVE  FeedsInv'
  BY <1>4, FeedsQuiet
<1>5. CASE Feeds!Start \/ Feeds!Toggle
  <2>1. UNCHANGED <<conn, sees, strays, consumer, taken, calls, queues, packets, ingested>>
    BY <1>5 DEF Feeds!Start, Feeds!Toggle, Feeds!traffic
  <2>2. (step' = "idle" /\ first' = conn + 1) \/ (step' = step /\ first' = first)
    BY <1>5 DEF Feeds!Start, Feeds!Toggle
  <2>3. first' \in 1 .. conn' + 1 /\ conn' = conn BY <1>0, <2>1, <2>2 DEF Shape
  <2>4. FeedTypes' BY <1>0, <2>1, <2>2, <2>3 DEF FeedTypes
  <2> QED BY <1>4, <2>1, <2>4
<1>6. ASSUME NEW from \in {"idle", "consuming", "waiting", "ingesting", "closing"},
             NEW to \in {"off", "idle", "consuming", "waiting", "closing"}, Feeds!Goes(from, to),
             from = "idle" => to = "off"
      PROVE  FeedsInv'
  <2>1. UNCHANGED <<conn, first, sees, strays, consumer, taken, calls, queues, packets, ingested>>
    BY <1>6 DEF Feeds!Goes, Feeds!traffic
  <2>2. FeedTypes' BY <1>0, <1>6, <2>1 DEF Feeds!Goes, FeedTypes, Shape
  <2> QED BY <1>4, <2>1, <2>2
<1>7. CASE Feeds!Wait \/ Feeds!GiveUp \/ Feeds!TimedOut \/ Feeds!IngestEnd \/ Feeds!Closed \/ Feeds!Stop
  <2>1. CASE Feeds!Wait BY <1>6, <2>1 DEF Feeds!Wait
  <2>2. CASE Feeds!GiveUp BY <1>6, <2>2 DEF Feeds!GiveUp
  <2>3. CASE Feeds!TimedOut BY <1>6, <2>3 DEF Feeds!TimedOut
  <2>4. CASE Feeds!IngestEnd BY <1>6, <2>4 DEF Feeds!IngestEnd
  <2>5. CASE Feeds!Closed BY <1>6, <2>5 DEF Feeds!Closed
  <2>6. CASE Feeds!Stop BY <1>6, <2>6 DEF Feeds!Stop
  <2> QED BY <1>7, <2>1, <2>2, <2>3, <2>4, <2>5, <2>6
<1>8. CASE Feeds!Connect
  <2>1. CASE step' = "consuming"
    <3>1. /\ conn \in Feeds!Conns /\ consumer' = [consumer EXCEPT ![conn] = "reading"]
          /\ taken' = [taken EXCEPT ![conn] = packets]
          /\ UNCHANGED <<conn, first, sees, strays, calls, queues, packets, ingested>>
      BY <1>0, <1>8, <2>1 DEF Feeds!Connect, FeedTypes, Shape
    <3>2. FeedTypes' BY <1>0, <2>1, <3>1 DEF FeedTypes, Shape
    <3> QED BY <3>1, <3>2, ReconnectStep
  <2>2. CASE step' = "idle"
    <3>1. UNCHANGED <<conn, first, sees, strays, consumer, taken, calls, queues, packets, ingested>>
      BY <1>8, <2>2 DEF Feeds!Connect
    <3>2. FeedTypes' BY <1>0, <2>2, <3>1 DEF FeedTypes, Shape
    <3> QED BY <1>4, <3>1, <3>2
  <2> QED BY <1>8, <2>1, <2>2 DEF Feeds!Connect
<1>9. CASE Feeds!Bind BY <1>9, BindStep
<1>10. CASE Feeds!Ingest BY <1>10, IngestStep
<1>11. CASE UNCHANGED feeds
  <2>1. UNCHANGED <<conn, step, first, sees, strays, consumer, taken, calls, queues, packets, ingested>>
    BY <1>11 DEF feeds
  <2>2. FeedTypes' BY <1>0, <2>1 DEF FeedTypes, Shape
  <2> QED BY <1>4, <2>1, <2>2
<1> QED BY <1>1, <1>2, <1>3, <1>5, <1>7, <1>8, <1>9, <1>10, <1>11 DEF Feeds!Next

--------------------------------------------------------------------------------
(* The hubs                                                                 *)

\* An element at the end of the queue is at the end of all a page holds.
LEMMA AppendHeld ==
  ASSUME NEW S, NEW a \in Seq(S), NEW b \in Seq(S), NEW c \in Seq(S), NEW e \in S
  PROVE  /\ a \o b \o Append(c, e) = Append(a \o b \o c, e)
         /\ a \o b \o c \in Seq(S)
<1>1. /\ a \o b \in Seq(S) /\ <<e>> \in Seq(S) /\ a \o b \o c \in Seq(S)
      /\ Append(c, e) = c \o <<e>> /\ Append(a \o b \o c, e) = (a \o b \o c) \o <<e>>
  BY AppendIsConcat, ConcatProperties
<1>2. ((a \o b) \o c) \o <<e>> = (a \o b) \o (c \o <<e>>)
  <2>1. a \o b \in Seq(S) /\ <<e>> \in Seq(S) BY <1>1
  <2> QED BY <2>1, ConcatAssociative
<1> QED BY <1>1, <1>2

\* The head of the queue that is on its way, and what was on its way and has arrived.
LEMMA MoveHeld ==
  ASSUME NEW S, NEW a \in Seq(S), NEW b \in Seq(S), NEW c \in Seq(S)
  PROVE  /\ c # <<>> => (a \o <<Head(c)>>) \o Tail(c) = (a \o <<>>) \o c
         /\ (a \o b) \o <<>> \o c = a \o b \o c
         /\ <<>> \o b \o <<>> = b
<1>1. c # <<>> => <<Head(c)>> \o Tail(c) = c BY HeadTailProperties
<1>2. c # <<>> => <<Head(c)>> \in Seq(S) /\ Tail(c) \in Seq(S) BY TailOf
<1>3. c # <<>> => a \o <<Head(c)>> \o Tail(c) = a \o (<<Head(c)>> \o Tail(c)) BY <1>2, ConcatAssociative
<1>4. a \o <<>> = a /\ a \o b \in Seq(S) BY ConcatEmptySeq, ConcatProperties
<1>5. (a \o b) \o <<>> = a \o b BY <1>4, ConcatEmptySeq
<1>6. <<>> \o b = b /\ b \o <<>> = b BY ConcatEmptySeq
<1> QED BY <1>1, <1>3, <1>4, <1>5, <1>6

\* t is s without one element
OneLess(t, s) ==
  \E k \in Nat : \A i \in DOMAIN t : LET j == IF i < k THEN i ELSE i + 1 IN j \in DOMAIN s /\ t[i] = s[j]

\* Without its oldest element the queue, and so what is held, lacks one.
LEMMA DropHeld ==
  ASSUME NEW S, NEW a \in Seq(S), NEW b \in Seq(S), NEW c \in Seq(S), c # <<>>
  PROVE  /\ a \o b \o c \in Seq(S) /\ a \o b \o Tail(c) \in Seq(S)
         /\ OneLess(a \o b \o Tail(c), a \o b \o c)
<1> DEFINE ab == a \o b
           s == ab \o c
           t == ab \o Tail(c)
           k == Len(ab) + 1
<1>1. ab \in Seq(S) /\ Len(ab) \in Nat BY ConcatProperties
<1> HIDE DEF ab
<1>2. /\ Tail(c) \in Seq(S) /\ Len(Tail(c)) = Len(c) - 1 /\ Len(c) \in Nat \ {0}
      /\ \A i \in DOMAIN Tail(c) : i \in Nat \ {0} /\ i + 1 \in DOMAIN c /\ Tail(c)[i] = c[i + 1]
  BY TailOf
<1>3. /\ s \in Seq(S) /\ Len(s) = Len(ab) + Len(c)
      /\ \A i \in 1 .. Len(ab) + Len(c) : s[i] = IF i <= Len(ab) THEN ab[i] ELSE c[i - Len(ab)]
  BY <1>1, ConcatProperties
<1>4. /\ t \in Seq(S) /\ Len(t) = Len(ab) + Len(c) - 1
      /\ \A i \in 1 .. Len(ab) + Len(c) - 1 : t[i] = IF i <= Len(ab) THEN ab[i] ELSE Tail(c)[i - Len(ab)]
  <2>1. /\ t \in Seq(S) /\ Len(t) = Len(ab) + Len(Tail(c))
        /\ \A i \in 1 .. Len(ab) + Len(Tail(c)) : t[i] = IF i <= Len(ab) THEN ab[i] ELSE Tail(c)[i - Len(ab)]
    BY <1>1, <1>2, ConcatProperties
  <2>2. Len(ab) + Len(Tail(c)) = Len(ab) + Len(c) - 1 BY <1>1, <1>2
  <2> QED BY <2>1, <2>2
<1> HIDE DEF s, t
<1>5. DOMAIN s = 1 .. Len(ab) + Len(c) /\ DOMAIN t = 1 .. Len(ab) + Len(c) - 1 /\ DOMAIN Tail(c) = 1 .. Len(c) - 1
  BY <1>2, <1>3, <1>4
<1>6. ASSUME NEW i \in DOMAIN t
      PROVE  LET j == IF i < k THEN i ELSE i + 1 IN j \in DOMAIN s /\ t[i] = s[j]
  <2>1. i \in 1 .. Len(ab) + Len(c) - 1 /\ i \in Nat BY <1>1, <1>2, <1>5
  <2>2. CASE i < k
    <3>1. i <= Len(ab) /\ i \in 1 .. Len(ab) + Len(c) BY <1>1, <1>2, <2>1, <2>2
    <3>2. t[i] = ab[i] /\ s[i] = ab[i] BY <1>3, <1>4, <2>1, <3>1
    <3> QED BY <1>5, <2>2, <3>1, <3>2
  <2>3. CASE ~(i < k)
    <3>1. i - Len(ab) \in DOMAIN Tail(c) BY <1>1, <1>2, <1>5, <2>1, <2>3
    <3>2. t[i] = c[i - Len(ab) + 1]
      <4>1. ~(i <= Len(ab)) BY <1>1, <2>1, <2>3
      <4>2. t[i] = Tail(c)[i - Len(ab)] BY <1>4, <2>1, <4>1
      <4> QED BY <1>2, <3>1, <4>2
    <3>3. i + 1 \in DOMAIN s /\ s[i + 1] = c[i + 1 - Len(ab)]
      <4>1. ~(i + 1 <= Len(ab)) /\ i + 1 \in 1 .. Len(ab) + Len(c) BY <1>1, <1>2, <2>1, <2>3
      <4> QED BY <1>3, <1>5, <4>1
    <3>4. i - Len(ab) + 1 = i + 1 - Len(ab) BY <1>1, <2>1
    <3> QED BY <2>3, <3>2, <3>3, <3>4
  <2> QED BY <2>2, <2>3
<1>7. k \in Nat BY <1>1
<1> HIDE DEF k
<1>8. OneLess(t, s) BY <1>6, <1>7 DEF OneLess
<1> QED BY <1>3, <1>4, <1>8 DEF s, t, ab

--------------------------------------------------------------------------------
Frames == [n : Nat, encrypted : BOOLEAN, pcm : BOOLEAN]

Walks == [phase : {"idle", "walk", "discard"}, event : Nat, size : {Hubs!Cardinality(set) : set \in SUBSET Pages} \cup {0},
          todo : SUBSET Pages, seen : SUBSET Pages, dead : SUBSET Pages]
LoopWalk == walker["loop"]

HubsTypes ==
  /\ published \in Nat /\ latest \in Seq(Frames) /\ subs \subseteq Pages
  /\ queue \in [Pages -> Seq(Frames)] /\ sending \in [Pages -> Seq(Frames)] /\ shown \in [Pages -> Seq(Frames)]
  /\ base \in [Pages -> Nat] /\ \A p \in Pages : base[p] <= published
  /\ clients \in Nat /\ (clients > 0 => hub = "audio")
  /\ byThread \subseteq 1 .. published

\* Only the event bus is walked; nobody subscribes while the loop walks, and the set it walks has
\* its size unless a thread discarded one.
HubsWalks ==
  /\ walker \in [Hubs!Publishers -> Walks]
  /\ \A w \in Hubs!Publishers : walker[w].phase # "idle" =>
       hub = "events" /\ (w \in Threads => walker[w].event \in byThread)
  /\ LoopWalk.phase = "idle" => LoopWalk.event = 0
  /\ LoopWalk.phase # "idle" => LoopWalk.event \in 1 .. published /\ LoopWalk.event \notin byThread
  /\ LoopWalk.phase = "walk" =>
       /\ subs \subseteq LoopWalk.todo \cup LoopWalk.seen
       /\ LoopWalk.event \notin disturbed => LoopWalk.size = Hubs!Cardinality(subs)

\* what the events of a page are, after those it had when it subscribed
EventsFit(held, from) ==
  /\ \A n \in from + 1 .. published :
       n \notin byThread /\ n # LoopWalk.event /\ n \notin disturbed => \E i \in DOMAIN held : held[i].n = n
  /\ \A i \in DOMAIN held : held[i].n \notin byThread => held[i].n \in from + 1 .. published
  /\ \A i, j \in DOMAIN held :
       i < j /\ held[i].n \notin byThread /\ held[j].n \notin byThread => held[i].n < held[j].n

\* the event the loop is publishing is the last of a page the walk has met, and of no other; one
\* that does not have it is discarded, unless the walk was disturbed
Marked(p, held, from) ==
  LoopWalk.phase # "idle" =>
    /\ from < LoopWalk.event
    /\ \A i \in DOMAIN held : held[i].n \notin byThread =>
         held[i].n <= LoopWalk.event /\ (held[i].n = LoopWalk.event => p \in LoopWalk.seen)
    /\ (LoopWalk.phase = "walk" /\ p \in LoopWalk.seen) \/ (LoopWalk.phase = "discard" /\ LoopWalk.event \notin disturbed) =>
         p \in LoopWalk.dead \/ \E i \in DOMAIN held : held[i].n = LoopWalk.event

HubsInOrder(held) == \A i, j \in DOMAIN held : i < j => held[i].n < held[j].n
Silent(held) == \A i \in DOMAIN held : ~(held[i].encrypted /\ held[i].pcm)
Newest(held) == published > 0 => held # <<>> /\ held[Len(held)].n = published

HubsInv ==
  /\ HubsTypes /\ HubsWalks
  /\ hub = "events" => latest = <<>> /\ \A p \in subs :
       EventsFit(Hubs!Held(p), base[p]) /\ Marked(p, Hubs!Held(p), base[p])
  /\ hub = "audio" =>
       /\ \A i \in DOMAIN latest : i = 1 /\ latest[i].n = published /\ ~latest[i].pcm
       /\ published > 0 => Len(latest) = 1
       /\ \A p \in subs : HubsInOrder(Hubs!Held(p)) /\ Silent(Hubs!Held(p)) /\ Newest(Hubs!Held(p))
                           /\ \A i \in DOMAIN Hubs!Held(p) : Hubs!Held(p)[i].n <= published

\* What a page holds, shown, on its way and queued, is a sequence of frames.
LEMMA HeldFrames == HubsTypes => \A p \in Pages : Hubs!Held(p) \in Seq(Frames)
BY ConcatProperties DEF HubsTypes, Hubs!Held

\* The invariant says of every page what the two promises say.
LEMMA HubsImply == HubsInv => Hubs!LoopEventsArrive /\ Hubs!FreshFrames
BY DEF HubsInv, EventsFit, HubsInOrder, Silent, Newest, Hubs!LoopEventsArrive, Hubs!FromLoop, Hubs!Whole, LoopWalk, Hubs!FreshFrames

\* Nothing is published and nobody has subscribed.
LEMMA HubsInit == Hubs!Init => HubsInv
<1> SUFFICES ASSUME Hubs!Init PROVE HubsInv OBVIOUS
<1>1. published = 0 /\ latest = <<>> /\ clients = 0 /\ subs = {} /\ byThread = {} BY DEF Hubs!Init
<1>2. /\ queue = [p \in Pages |-> <<>>] /\ sending = [p \in Pages |-> <<>>] /\ shown = [p \in Pages |-> <<>>]
      /\ base = [p \in Pages |-> 0]
  BY DEF Hubs!Init
<1>3. <<>> \in Seq(Frames) OBVIOUS
<1>4. HubsTypes BY <1>1, <1>2, <1>3 DEF HubsTypes
<1>6. HubsWalks
  <2>2. Hubs!Idle \in Walks BY DEF Hubs!Idle, Walks
  <2>3. walker = [w \in Hubs!Publishers |-> Hubs!Idle] /\ "loop" \in Hubs!Publishers BY DEF Hubs!Init, Hubs!Publishers
  <2>4. \A w \in Hubs!Publishers : walker[w] = Hubs!Idle BY <2>3
  <2>5. walker \in [Hubs!Publishers -> Walks] BY <2>2, <2>3
  <2> QED BY <2>3, <2>4, <2>5 DEF HubsWalks, LoopWalk, Hubs!Idle
<1>5. DOMAIN latest = {} /\ ~(published > 0) BY <1>1
<1> QED BY <1>1, <1>4, <1>5, <1>6 DEF HubsInv

\* What a step leaves to the pages that stay subscribed.
LEMMA HubsQuiet ==
  ASSUME HubsInv, HubsTypes', HubsWalks', UNCHANGED <<hub, published, latest, byThread>>,
         LoopWalk'.event = LoopWalk.event, LoopWalk' = LoopWalk \/ LoopWalk'.phase = "idle",
         disturbed \subseteq disturbed',
         \A p \in subs' : p \in subs /\ Hubs!Held(p)' = Hubs!Held(p) /\ base'[p] = base[p]
  PROVE  HubsInv'
<1>1. ASSUME hub = "events", NEW p \in subs'
      PROVE  EventsFit(Hubs!Held(p), base[p])' /\ Marked(p, Hubs!Held(p), base[p])'
  <2>1. EventsFit(Hubs!Held(p), base[p]) /\ Marked(p, Hubs!Held(p), base[p]) BY <1>1 DEF HubsInv
  <2>2. Hubs!Held(p)' = Hubs!Held(p) /\ base'[p] = base[p] BY <1>1
  <2>3. EventsFit(Hubs!Held(p), base[p])' BY <2>1, <2>2 DEF EventsFit
  <2>4. Marked(p, Hubs!Held(p), base[p])' BY <2>1, <2>2 DEF Marked
  <2> QED BY <2>3, <2>4
<1> QED BY <1>1 DEF HubsInv, HubsInOrder, Silent, Newest

\* A frame or event more.
LEMMA LastHeld ==
  ASSUME NEW held \in Seq(Frames), NEW new \in Frames
  PROVE  /\ Append(held, new) # <<>> /\ Append(held, new)[Len(Append(held, new))] = new
         /\ \A i \in DOMAIN Append(held, new) :
              i \in Nat /\ ((i \in DOMAIN held /\ i <= Len(held) /\ Append(held, new)[i] = held[i])
                           \/ (i = Len(held) + 1 /\ Append(held, new)[i] = new))
         /\ \A i \in DOMAIN held : i \in DOMAIN Append(held, new) /\ Append(held, new)[i] = held[i] /\ held[i].n \in Nat
         /\ Len(held) + 1 \in DOMAIN Append(held, new) /\ Append(held, new)[Len(held) + 1] = new
         /\ Len(held) \in Nat
<1>1. /\ Append(held, new) \in Seq(Frames) /\ Len(Append(held, new)) = Len(held) + 1 /\ Len(held) \in Nat
      /\ DOMAIN held = 1 .. Len(held) /\ DOMAIN Append(held, new) = 1 .. Len(held) + 1
      /\ \A i \in DOMAIN held : Append(held, new)[i] = held[i]
      /\ Append(held, new)[Len(held) + 1] = new
  BY AppendOf
<1>2. ASSUME NEW i \in DOMAIN held PROVE held[i].n \in Nat
  <2>1. held[i] \in Frames OBVIOUS
  <2> QED BY <2>1 DEF Frames
<1> QED BY <1>1, <1>2

\* An event of the event loop at the end of what a page holds.
LEMMA EventAppended ==
  ASSUME HubsTypes, HubsWalks, LoopWalk.phase = "walk", NEW p \in Pages, p \notin LoopWalk.seen,
         NEW held \in Seq(Frames), NEW from \in Nat, EventsFit(held, from), Marked(p, held, from),
         NEW new \in Frames, new.n = LoopWalk.event,
         UNCHANGED <<published, byThread, disturbed>>, LoopWalk'.event = LoopWalk.event,
         LoopWalk'.phase = "walk", p \in LoopWalk'.seen
  PROVE  EventsFit(Append(held, new), from)' /\ Marked(p, Append(held, new), from)'
<1> DEFINE more == Append(held, new)
<1>1. /\ \A i \in DOMAIN more :
           i \in Nat /\ ((i \in DOMAIN held /\ i <= Len(held) /\ more[i] = held[i]) \/ (i = Len(held) + 1 /\ more[i] = new))
      /\ \A i \in DOMAIN held : i \in DOMAIN more /\ more[i] = held[i] /\ held[i].n \in Nat
      /\ Len(held) + 1 \in DOMAIN more /\ more[Len(held) + 1] = new /\ Len(held) \in Nat
  BY LastHeld
<1> HIDE DEF more
<1>2. /\ published \in Nat /\ LoopWalk.event \in 1 .. published /\ from < LoopWalk.event
      /\ \A i \in DOMAIN held : held[i].n \notin byThread => held[i].n < LoopWalk.event
  <2>1. published \in Nat /\ LoopWalk.event \in 1 .. published BY DEF HubsTypes, HubsWalks
  <2> QED BY <1>1, <2>1 DEF Marked
<1>3. ASSUME NEW n \in from + 1 .. published, n \notin byThread, n # LoopWalk.event, n \notin disturbed
      PROVE  \E i \in DOMAIN more : more[i].n = n
  BY <1>1, <1>3 DEF EventsFit
<1>4. ASSUME NEW i \in DOMAIN more, more[i].n \notin byThread
      PROVE  more[i].n \in from + 1 .. published /\ more[i].n <= LoopWalk.event
  <2>1. CASE i \in DOMAIN held /\ more[i] = held[i]
    <3>1. held[i].n \in from + 1 .. published BY <1>4, <2>1 DEF EventsFit
    <3> QED BY <1>2, <1>4, <2>1, <3>1
  <2>2. CASE more[i] = new BY <1>2, <2>2
  <2> QED BY <1>1, <2>1, <2>2
<1>5. ASSUME NEW i \in DOMAIN more, NEW j \in DOMAIN more, i < j,
             more[i].n \notin byThread, more[j].n \notin byThread
      PROVE  more[i].n < more[j].n
  <2>1. i \in DOMAIN held /\ more[i] = held[i] BY <1>1, <1>5
  <2>3. CASE j \in DOMAIN held /\ more[j] = held[j] BY <1>5, <2>1, <2>3 DEF EventsFit
  <2>4. CASE more[j] = new BY <1>2, <1>5, <2>1, <2>4
  <2> QED BY <1>1, <2>3, <2>4
<1>6. EventsFit(more, from)' BY <1>3, <1>4, <1>5 DEF EventsFit
<1>7. Marked(p, more, from)' BY <1>1, <1>2, <1>4 DEF Marked
<1> QED BY <1>6, <1>7 DEF more

\* An event of a thread is not looked at.
LEMMA ThreadAppended ==
  ASSUME NEW p, NEW held \in Seq(Frames), NEW from \in Nat, EventsFit(held, from), Marked(p, held, from),
         NEW new \in Frames, new.n \in byThread, LoopWalk.phase # "idle" => LoopWalk.event \notin byThread
  PROVE  EventsFit(Append(held, new), from) /\ Marked(p, Append(held, new), from)
<1> DEFINE more == Append(held, new)
<1>1. /\ \A i \in DOMAIN more :
           i \in Nat /\ ((i \in DOMAIN held /\ i <= Len(held) /\ more[i] = held[i]) \/ (i = Len(held) + 1 /\ more[i] = new))
      /\ \A i \in DOMAIN held : i \in DOMAIN more /\ more[i] = held[i] /\ held[i].n \in Nat
  BY LastHeld
<1> HIDE DEF more
<1>2. \A i \in DOMAIN more : more[i].n \notin byThread => i \in DOMAIN held /\ more[i] = held[i] BY <1>1
<1>3. EventsFit(more, from) BY <1>1, <1>2 DEF EventsFit
<1>4. Marked(p, more, from) BY <1>1, <1>2 DEF Marked
<1> QED BY <1>3, <1>4 DEF more

\* A frame at the end of what a page holds is the newest.
LEMMA FrameAppended ==
  ASSUME published \in Nat, NEW held \in Seq(Frames), HubsInOrder(held), Silent(held),
         \A i \in DOMAIN held : held[i].n <= published,
         published' = published + 1, NEW new \in Frames, new.n = published + 1, ~(new.encrypted /\ new.pcm)
  PROVE  /\ HubsInOrder(Append(held, new)) /\ Silent(Append(held, new)) /\ Newest(Append(held, new))'
         /\ \A i \in DOMAIN Append(held, new) : Append(held, new)[i].n <= published'
<1> DEFINE more == Append(held, new)
<1>1. /\ \A i \in DOMAIN more :
           i \in Nat /\ ((i \in DOMAIN held /\ i <= Len(held) /\ more[i] = held[i]) \/ (i = Len(held) + 1 /\ more[i] = new))
      /\ \A i \in DOMAIN held : i \in DOMAIN more /\ more[i] = held[i] /\ held[i].n \in Nat
      /\ more # <<>> /\ more[Len(more)] = new /\ Len(held) \in Nat
  BY LastHeld
<1> HIDE DEF more
<1>2. ASSUME NEW i \in DOMAIN more PROVE more[i].n <= published' BY <1>1
<1>3. ASSUME NEW i \in DOMAIN more, NEW j \in DOMAIN more, i < j PROVE more[i].n < more[j].n
  <2>1. i \in DOMAIN held /\ more[i] = held[i] BY <1>1, <1>3
  <2>2. CASE j \in DOMAIN held /\ more[j] = held[j] BY <1>3, <2>1, <2>2 DEF HubsInOrder
  <2>3. CASE more[j] = new BY <1>1, <2>1, <2>3
  <2> QED BY <1>1, <2>2, <2>3
<1>4. Silent(more) BY <1>1 DEF Silent
<1>5. Newest(more)' BY <1>1 DEF Newest
<1>6. HubsInOrder(more) BY <1>3 DEF HubsInOrder
<1> QED BY <1>2, <1>4, <1>5, <1>6 DEF more

\* The order does not suffer from the element that was dropped.
LEMMA FrameDropped ==
  ASSUME NEW a \in Seq(Frames), NEW b \in Seq(Frames), NEW c \in Seq(Frames), c # <<>>,
         HubsInOrder(a \o b \o c), Silent(a \o b \o c), \A i \in DOMAIN (a \o b \o c) : (a \o b \o c)[i].n <= published
  PROVE  LET t == a \o b \o Tail(c)
         IN  t \in Seq(Frames) /\ HubsInOrder(t) /\ Silent(t) /\ \A i \in DOMAIN t : t[i].n <= published
<1> DEFINE s == a \o b \o c
           t == a \o b \o Tail(c)
<1>1. s \in Seq(Frames) /\ t \in Seq(Frames) /\ OneLess(t, s) BY DropHeld
<1> HIDE DEF s, t
<1>2. PICK k \in Nat :
        \A i \in DOMAIN t :
          LET j == IF i < k THEN i ELSE i + 1 IN j \in DOMAIN s /\ t[i] = s[j]
  BY <1>1 DEF OneLess
<1>3. \A i \in DOMAIN t : i \in Nat BY <1>1
<1>4. HubsInOrder(s) /\ Silent(s) /\ \A i \in DOMAIN s : s[i].n <= published BY DEF s
<1>5. ASSUME NEW i \in DOMAIN t, NEW j \in DOMAIN t, i < j PROVE t[i].n < t[j].n
  <2> DEFINE x == IF i < k THEN i ELSE i + 1
             y == IF j < k THEN j ELSE j + 1
  <2>1. x \in DOMAIN s /\ t[i] = s[x] /\ y \in DOMAIN s /\ t[j] = s[y] BY <1>2
  <2>2. x < y BY <1>3, <1>5
  <2> HIDE DEF x, y
  <2> QED BY <1>4, <2>1, <2>2 DEF HubsInOrder
<1>6. ASSUME NEW i \in DOMAIN t PROVE ~(t[i].encrypted /\ t[i].pcm) /\ t[i].n <= published
  <2>1. PICK j \in DOMAIN s : t[i] = s[j] BY <1>2
  <2> QED BY <1>4, <2>1 DEF Silent
<1>7. HubsInOrder(t) /\ Silent(t) BY <1>5, <1>6 DEF HubsInOrder, Silent
<1> QED BY <1>1, <1>6, <1>7 DEF t

\* The event loop or a thread begins to publish.
LEMMA PublishStep ==
  ASSUME HubsInv, NEW w \in Hubs!Publishers, Hubs!Publish(w)
  PROVE  HubsInv'
<1> DEFINE n == published + 1
           begun == [phase |-> "walk", event |-> n, size |-> Hubs!Cardinality(subs), todo |-> subs, seen |-> {}, dead |-> {}]
<1>1. /\ hub = "events" /\ published' = n /\ walker' = [walker EXCEPT ![w] = begun] /\ walker[w] = Hubs!Idle
      /\ byThread' = IF w \in Threads THEN byThread \cup {n} ELSE byThread
      /\ UNCHANGED <<hub, clients, latest, subs, queue, sending, shown, base, disturbed>>
  <2>1. /\ hub = "events" /\ published' = published + 1 /\ walker[w] = Hubs!Idle
        /\ UNCHANGED <<hub, clients, latest, subs, queue, sending, shown, base, disturbed>>
        /\ byThread' = IF w \in Threads THEN byThread \cup {published'} ELSE byThread
        /\ walker' = [walker EXCEPT ![w] = [phase |-> "walk", event |-> published', size |-> Hubs!Cardinality(subs),
                                            todo |-> subs, seen |-> {}, dead |-> {}]]
    BY DEF Hubs!Publish, Hubs!page
  <2> QED BY <2>1
<1>2. HubsTypes /\ HubsWalks /\ published \in Nat /\ n \in Nat /\ n > published BY DEF HubsInv, HubsTypes
<1>3. begun \in Walks BY <1>2 DEF HubsTypes, Walks
<1>4. walker' \in [Hubs!Publishers -> Walks] /\ "loop" \in Hubs!Publishers
  BY <1>1, <1>2, <1>3 DEF HubsWalks, Hubs!Publishers
<1>5. HubsTypes' BY <1>1, <1>2 DEF HubsTypes
<1>6. \A v \in Hubs!Publishers : walker'[v] = IF v = w THEN begun ELSE walker[v]
  BY <1>1, <1>2 DEF HubsWalks
<1>7. CASE w = "loop"
  <2>1. byThread' = byThread /\ LoopWalk' = begun /\ LoopWalk.event = 0 /\ LoopWalk.phase = "idle"
    BY <1>1, <1>4, <1>6, <1>7, HubAssumption DEF LoopWalk, Hubs!Idle
  <2>2. HubsWalks'
    <3>1. begun.event = n /\ begun.phase = "walk" /\ begun.todo = subs /\ begun.seen = {} /\ begun.size = Hubs!Cardinality(subs)
      OBVIOUS
    <3>2. n \notin byThread' BY <1>2, <2>1 DEF HubsTypes
    <3> QED BY <1>1, <1>2, <1>4, <1>6, <1>7, <2>1, <3>1, <3>2, HubAssumption DEF HubsWalks
  <2>3. ASSUME NEW p \in subs' PROVE EventsFit(Hubs!Held(p), base[p])' /\ Marked(p, Hubs!Held(p), base[p])'
    <3>1. Hubs!Held(p)' = Hubs!Held(p) /\ base'[p] = base[p] /\ base[p] \in Nat /\ base[p] <= published
      BY <1>1, <1>2, <2>3 DEF Hubs!Held, HubsTypes
    <3>2. EventsFit(Hubs!Held(p), base[p]) BY <1>1, <2>3 DEF HubsInv
    <3>3. begun.event = n /\ begun.phase = "walk" /\ begun.seen = {} OBVIOUS
    <3>4. \A k \in base[p] + 1 .. n : k # n => k \in base[p] + 1 .. published /\ k # 0
      BY <1>2, <3>1
    <3>5. \A k \in base[p] + 1 .. published : k \in base[p] + 1 .. n /\ k < n BY <1>2, <3>1
    <3>6. EventsFit(Hubs!Held(p), base[p])' BY <1>1, <2>1, <3>1, <3>2, <3>3, <3>4, <3>5 DEF EventsFit
    <3>7. Marked(p, Hubs!Held(p), base[p])'
      <4>1. base[p] < n BY <1>2, <3>1
      <4>2. \A i \in DOMAIN Hubs!Held(p) : Hubs!Held(p)[i].n \notin byThread => Hubs!Held(p)[i].n < n
        BY <3>2, <3>5 DEF EventsFit
      <4>3. \A i \in DOMAIN Hubs!Held(p) : Hubs!Held(p)[i].n \notin byThread =>
              Hubs!Held(p)[i].n <= n /\ Hubs!Held(p)[i].n # n
        BY <1>2, <3>1, <3>2, <4>2 DEF EventsFit
      <4> QED BY <1>1, <2>1, <3>1, <3>3, <4>1, <4>3 DEF Marked
    <3> QED BY <3>6, <3>7
  <2> QED BY <1>1, <1>5, <2>2, <2>3 DEF HubsInv
<1>8. CASE w # "loop"
  <2>1. /\ w \in Threads /\ byThread' = byThread \cup {n} /\ LoopWalk' = LoopWalk
    BY <1>1, <1>4, <1>6, <1>8 DEF LoopWalk, Hubs!Publishers
  <2>2. HubsWalks'
    <3>1. LoopWalk.phase # "idle" => LoopWalk.event \in 1 .. published' /\ LoopWalk.event \notin byThread'
      BY <1>1, <1>2, <2>1 DEF HubsWalks
    <3>2. begun.event = n /\ begun.phase = "walk" OBVIOUS
    <3> QED BY <1>1, <1>2, <1>4, <1>6, <2>1, <3>1, <3>2 DEF HubsWalks
  <2>3. ASSUME NEW p \in subs' PROVE EventsFit(Hubs!Held(p), base[p])' /\ Marked(p, Hubs!Held(p), base[p])'
    <3>1. Hubs!Held(p)' = Hubs!Held(p) /\ base'[p] = base[p] /\ base[p] \in Nat
      BY <1>1, <1>2, <2>3 DEF Hubs!Held, HubsTypes
    <3>2. EventsFit(Hubs!Held(p), base[p]) /\ Marked(p, Hubs!Held(p), base[p]) BY <1>1, <2>3 DEF HubsInv
    <3>3. \A k \in base[p] + 1 .. n : k # n => k \in base[p] + 1 .. published BY <1>2, <3>1
    <3>4. \A k \in base[p] + 1 .. published : k \in base[p] + 1 .. n BY <1>2, <3>1
    <3>5. EventsFit(Hubs!Held(p), base[p])' BY <1>1, <2>1, <3>1, <3>2, <3>3, <3>4 DEF EventsFit
    <3>6. Marked(p, Hubs!Held(p), base[p])' BY <1>1, <2>1, <3>1, <3>2 DEF Marked
    <3> QED BY <3>5, <3>6
  <2> QED BY <1>1, <1>5, <2>2, <2>3 DEF HubsInv
<1> QED BY <1>7, <1>8

\* A walk comes to one subscriber.
LEMMA DeliverStep ==
  ASSUME HubsInv, NEW w \in Hubs!Publishers, NEW p \in Pages, Hubs!Deliver(w, p)
  PROVE  HubsInv'
<1> DEFINE new == Hubs!Event(walker[w].event)
           next == [walker[w] EXCEPT !.todo = @ \ {p}, !.seen = @ \cup {p},
                                     !.dead = IF Hubs!Full(p) THEN @ \cup {p} ELSE @]
<1>0. HubsTypes /\ HubsWalks /\ \A q \in Pages : Hubs!Held(q) \in Seq(Frames) BY HeldFrames DEF HubsInv
<1>1. /\ walker[w].phase = "walk" /\ p \in subs /\ p \notin walker[w].seen
      /\ UNCHANGED <<hub, clients, published, latest, subs, sending, shown, base, byThread, disturbed>>
      /\ queue' = IF Hubs!Full(p) THEN queue ELSE [queue EXCEPT ![p] = Append(queue[p], new)]
  BY DEF Hubs!Deliver
<1>2. walker[w] \in Walks /\ hub = "events" /\ "loop" \in Hubs!Publishers BY <1>0, <1>1 DEF HubsWalks, Hubs!Publishers
<1>3. /\ next \in Walks /\ next.phase = "walk" /\ next.event = walker[w].event /\ next.size = walker[w].size
      /\ next.seen = walker[w].seen \cup {p} /\ next.todo = walker[w].todo \ {p}
      /\ next.dead = IF Hubs!Full(p) THEN walker[w].dead \cup {p} ELSE walker[w].dead
  <2>1. PICK r \in Walks : r = walker[w] BY <1>2
  <2>2. [r EXCEPT !.todo = @ \ {p}, !.seen = @ \cup {p}, !.dead = IF Hubs!Full(p) THEN @ \cup {p} ELSE @] \in Walks
    BY DEF Walks
  <2> QED BY <1>1, <2>1, <2>2 DEF Walks
<1>4. walker' = [walker EXCEPT ![w] = next]
  <2>1. walker' = [walker EXCEPT ![w].todo = @ \ {p}, ![w].seen = @ \cup {p},
                                 ![w].dead = IF Hubs!Full(p) THEN @ \cup {p} ELSE @]
    BY DEF Hubs!Deliver
  <2> QED BY <1>0, <2>1 DEF HubsWalks, Walks
<1>5. new \in Frames /\ new.n = walker[w].event BY <1>2 DEF Walks, Hubs!Event, Frames
<1> HIDE DEF new, next
<1>6. \A v \in Hubs!Publishers : walker'[v] = IF v = w THEN next ELSE walker[v] BY <1>0, <1>4 DEF HubsWalks
<1>7. walker' \in [Hubs!Publishers -> Walks] BY <1>0, <1>3, <1>4 DEF HubsWalks
<1>8. queue[p] \in Seq(Frames) /\ Append(queue[p], new) \in Seq(Frames) BY <1>0, <1>5, AppendOf DEF HubsTypes
<1>9. HubsTypes' BY <1>0, <1>1, <1>8 DEF HubsTypes
<1>10. HubsWalks'
  <2>1. CASE w = "loop" BY <1>0, <1>1, <1>3, <1>6, <1>7, <2>1 DEF HubsWalks, LoopWalk
  <2>2. CASE w # "loop" BY <1>0, <1>1, <1>2, <1>3, <1>6, <1>7, <2>2 DEF HubsWalks, LoopWalk
  <2> QED BY <2>1, <2>2
<1>11. \A q \in Pages : q # p => Hubs!Held(q)' = Hubs!Held(q)
  BY <1>0, <1>1 DEF HubsTypes, Hubs!Held
<1>12. Hubs!Held(p)' = IF Hubs!Full(p) THEN Hubs!Held(p) ELSE Append(Hubs!Held(p), new)
  <2>1. PICK a \in Seq(Frames), b \in Seq(Frames), c \in Seq(Frames) : a = shown[p] /\ b = sending[p] /\ c = queue[p]
    BY <1>0 DEF HubsTypes
  <2>2. PICK e \in Frames : e = new BY <1>5
  <2>3. a \o b \o Append(c, e) = Append(a \o b \o c, e) BY AppendHeld, SMTT(40)
  <2>4. queue'[p] = IF Hubs!Full(p) THEN c ELSE Append(c, e) BY <1>0, <1>1, <2>1, <2>2 DEF HubsTypes
  <2>5. Hubs!Held(p) = a \o b \o c /\ Hubs!Held(p)' = a \o b \o queue'[p] BY <1>1, <2>1 DEF Hubs!Held
  <2> QED BY <2>2, <2>3, <2>4, <2>5
<1>13. ASSUME NEW q \in subs' PROVE EventsFit(Hubs!Held(q), base[q])' /\ Marked(q, Hubs!Held(q), base[q])'
  <2>1. /\ q \in subs /\ q \in Pages /\ base[q] \in Nat /\ base'[q] = base[q]
        /\ EventsFit(Hubs!Held(q), base[q]) /\ Marked(q, Hubs!Held(q), base[q])
    BY <1>0, <1>1, <1>2, <1>13 DEF HubsInv, HubsTypes
  <2>2. PICK held \in Seq(Frames), from \in Nat : held = Hubs!Held(q) /\ from = base[q] BY <1>0, <2>1
  <2>3. EventsFit(held, from) /\ Marked(q, held, from) BY <2>1, <2>2
  <2>4. CASE w = "loop"
    <3>1. LoopWalk = walker[w] /\ LoopWalk' = next BY <1>2, <1>6, <2>4 DEF LoopWalk
    <3>2. CASE q = p /\ ~Hubs!Full(p)
      <4>1. PICK e \in Frames : e = new BY <1>5
      <4>2. EventsFit(Append(held, e), from)' /\ Marked(q, Append(held, e), from)'
        BY <1>0, <1>1, <1>3, <1>5, <2>3, <3>1, <3>2, <4>1, EventAppended
      <4>3. Hubs!Held(q)' = Append(held, e) /\ base'[q] = from BY <1>12, <2>1, <2>2, <3>2, <4>1
      <4> QED BY <4>2, <4>3 DEF EventsFit, Marked
    <3>3. CASE q # p \/ Hubs!Full(p)
      <4>1. Hubs!Held(q)' = held /\ base'[q] = from BY <1>11, <1>12, <2>1, <2>2, <3>3
      <4>2. EventsFit(Hubs!Held(q), base[q])' BY <1>1, <1>3, <2>3, <3>1, <4>1 DEF EventsFit
      <4>3. Marked(q, Hubs!Held(q), base[q])' BY <1>1, <1>3, <2>3, <3>1, <3>3, <4>1 DEF Marked
      <4> QED BY <4>2, <4>3
    <3> QED BY <3>2, <3>3
  <2>5. CASE w # "loop"
    <3>1. LoopWalk' = LoopWalk BY <1>2, <1>6, <2>5 DEF LoopWalk
    <3>2. new.n \in byThread BY <1>0, <1>1, <1>5, <2>5 DEF HubsWalks, Hubs!Publishers
    <3>3. LoopWalk.phase # "idle" => LoopWalk.event \notin byThread BY <1>0 DEF HubsWalks
    <3>4. PICK e \in Frames : e = new BY <1>5
    <3>5. EventsFit(Append(held, e), from) /\ Marked(q, Append(held, e), from)
      BY <2>3, <3>2, <3>3, <3>4, ThreadAppended
    <3>6. PICK now \in Seq(Frames) : now = Hubs!Held(q)' /\ EventsFit(now, from) /\ Marked(q, now, from)
      <4>1. Hubs!Held(q)' \in {held, Append(held, e)} BY <1>11, <1>12, <2>1, <2>2, <3>4
      <4>2. Append(held, e) \in Seq(Frames) BY AppendOf
      <4> QED BY <2>3, <3>5, <4>1, <4>2
    <3>7. base'[q] = from BY <2>1, <2>2
    <3>8. EventsFit(Hubs!Held(q), base[q])' BY <1>1, <3>1, <3>6, <3>7 DEF EventsFit
    <3>9. Marked(q, Hubs!Held(q), base[q])' BY <1>1, <3>1, <3>6, <3>7 DEF Marked
    <3> QED BY <3>8, <3>9
  <2> QED BY <2>4, <2>5
<1> QED BY <1>1, <1>2, <1>9, <1>10, <1>13 DEF HubsInv

\* A walk ends or raises, and then what was full is discarded.
LEMMA EndStep ==
  ASSUME HubsInv, NEW w \in Hubs!Publishers, Hubs!WalkEnds(w) \/ Hubs!PublishEnds(w)
  PROVE  HubsInv'
<1> DEFINE next == walker'[w]
<1>0. HubsTypes /\ HubsWalks /\ walker[w] \in Walks /\ "loop" \in Hubs!Publishers
  BY DEF HubsInv, HubsWalks, Hubs!Publishers
<1>1. /\ UNCHANGED <<hub, clients, published, latest, subs, queue, sending, shown, base, byThread, disturbed>>
      /\ walker[w].phase # "idle"
  BY DEF Hubs!WalkEnds, Hubs!PublishEnds, Hubs!page
<1>2. \/ /\ walker[w].phase = "walk" /\ Hubs!SizeChanged(w)
         /\ walker' = [walker EXCEPT ![w] = Hubs!Idle]
      \/ /\ walker[w].phase = "walk" /\ walker[w].todo \cap subs = {}
         /\ walker' = [walker EXCEPT ![w].phase = "discard"]
      \/ /\ walker[w].phase = "discard" /\ walker[w].dead = {}
         /\ walker' = [walker EXCEPT ![w] = Hubs!Idle]
  BY DEF Hubs!WalkEnds, Hubs!PublishEnds
<1>3. Hubs!Idle \in Walks BY DEF Hubs!Idle, Walks
<1>4. /\ walker' \in [Hubs!Publishers -> Walks]
      /\ next = Hubs!Idle \/ next = [walker[w] EXCEPT !.phase = "discard"]
      /\ next.phase = "idle" => next.event = 0
      /\ next.phase \in {"idle", "discard"}
      /\ next.phase = "discard" => next.event = walker[w].event /\ next.seen = walker[w].seen /\ next.dead = walker[w].dead
      /\ \A v \in Hubs!Publishers : v # w => walker'[v] = walker[v]
  <2>1. Hubs!Idle.phase = "idle" /\ Hubs!Idle.event = 0 BY DEF Hubs!Idle
  <2>2. PICK r \in Walks : r = walker[w] BY <1>0
  <2>3. LET then == [r EXCEPT !.phase = "discard"]
        IN  then \in Walks /\ then.phase = "discard" /\ then.event = r.event /\ then.seen = r.seen /\ then.dead = r.dead
    BY DEF Walks
  <2>4. CASE walker' = [walker EXCEPT ![w] = Hubs!Idle]
    <3>1. next = Hubs!Idle /\ \A v \in Hubs!Publishers : v # w => walker'[v] = walker[v] BY <1>0, <2>4 DEF HubsWalks
    <3>2. walker' \in [Hubs!Publishers -> Walks] BY <1>0, <1>3, <2>4 DEF HubsWalks
    <3> HIDE DEF next
    <3> QED BY <2>1, <3>1, <3>2
  <2>5. CASE walker' = [walker EXCEPT ![w].phase = "discard"]
    <3>1. walker' = [walker EXCEPT ![w] = [r EXCEPT !.phase = "discard"]] BY <1>0, <2>2, <2>5 DEF HubsWalks
    <3>2. /\ next = [r EXCEPT !.phase = "discard"] /\ walker' \in [Hubs!Publishers -> Walks]
          /\ \A v \in Hubs!Publishers : v # w => walker'[v] = walker[v]
      BY <1>0, <2>3, <3>1 DEF HubsWalks
    <3> HIDE DEF next
    <3> QED BY <2>2, <2>3, <3>2
  <2> QED BY <1>2, <2>4, <2>5
<1> HIDE DEF next
<1>5. HubsTypes' BY <1>0, <1>1 DEF HubsTypes
<1>6. CASE w # "loop"
  <2>1. LoopWalk' = LoopWalk BY <1>0, <1>4, <1>6 DEF LoopWalk
  <2>2. HubsWalks' BY <1>0, <1>1, <1>4, <2>1 DEF HubsWalks, next
  <2>3. \A p \in subs' : p \in subs /\ Hubs!Held(p)' = Hubs!Held(p) /\ base'[p] = base[p] BY <1>1 DEF Hubs!Held
  <2> QED BY <1>1, <1>5, <2>1, <2>2, <2>3, HubsQuiet
<1>7. CASE w = "loop"
  <2>1. LoopWalk = walker[w] /\ LoopWalk' = next BY <1>7 DEF LoopWalk, next
  <2>2. HubsWalks' BY <1>0, <1>1, <1>4, <1>7, <2>1 DEF HubsWalks, next
  <2>3. hub = "events" BY <1>0, <1>1 DEF HubsWalks
  <2>4. ASSUME NEW p \in subs PROVE EventsFit(Hubs!Held(p), base[p])' /\ Marked(p, Hubs!Held(p), base[p])'
    <3>1. Hubs!Held(p)' = Hubs!Held(p) /\ base'[p] = base[p] BY <1>1 DEF Hubs!Held
    <3>2. EventsFit(Hubs!Held(p), base[p]) /\ Marked(p, Hubs!Held(p), base[p]) BY <2>3, <2>4 DEF HubsInv
    <3>3. CASE next.phase = "idle"
      <4>1. LoopWalk.event \in disturbed \/ \E i \in DOMAIN Hubs!Held(p) : Hubs!Held(p)[i].n = LoopWalk.event
        <5>1. CASE walker[w].phase = "walk" /\ Hubs!SizeChanged(w)
          BY <1>0, <2>1, <5>1 DEF HubsWalks, Hubs!SizeChanged
        <5>2. CASE walker[w].phase = "discard" /\ walker[w].dead = {}
          BY <2>1, <3>2, <5>2 DEF Marked
        <5>3. ~(walker' = [walker EXCEPT ![w].phase = "discard"])
          BY <1>0, <3>3 DEF HubsWalks, Walks, next
        <5> QED BY <1>2, <5>1, <5>2, <5>3
      <4>2. EventsFit(Hubs!Held(p), base[p])' BY <1>1, <3>1, <3>2, <4>1 DEF EventsFit
      <4>3. Marked(p, Hubs!Held(p), base[p])' BY <2>1, <3>3 DEF Marked
      <4> QED BY <4>2, <4>3
    <3>4. CASE next.phase = "discard"
      <4>1. walker[w].phase = "walk" /\ walker[w].todo \cap subs = {}
        BY <1>0, <1>2, <3>4 DEF HubsWalks, next, Hubs!Idle
      <4>2. p \in LoopWalk.seen BY <1>0, <2>1, <2>4, <4>1 DEF HubsWalks
      <4>3. EventsFit(Hubs!Held(p), base[p])' BY <1>1, <1>4, <2>1, <3>1, <3>2, <3>4 DEF EventsFit
      <4>4. Marked(p, Hubs!Held(p), base[p])' BY <1>1, <1>4, <2>1, <3>1, <3>2, <3>4, <4>1, <4>2 DEF Marked
      <4> QED BY <4>3, <4>4
    <3> QED BY <1>4, <3>3, <3>4
  <2> QED BY <1>1, <1>5, <2>2, <2>3, <2>4 DEF HubsInv
<1> QED BY <1>6, <1>7

\* One queue that was full is discarded.
LEMMA DiscardStep ==
  ASSUME HubsInv, NEW w \in Hubs!Publishers, NEW p \in Pages, Hubs!Discard(w, p)
  PROVE  HubsInv'
<1> DEFINE next == [walker[w] EXCEPT !.dead = @ \ {p}]
<1>0. HubsTypes /\ HubsWalks /\ walker[w] \in Walks /\ "loop" \in Hubs!Publishers
  BY DEF HubsInv, HubsWalks, Hubs!Publishers
<1>1. /\ walker[w].phase = "discard" /\ subs' = subs \ {p}
      /\ disturbed' = IF LoopWalk.phase = "walk" /\ p \in subs THEN disturbed \cup {LoopWalk.event} ELSE disturbed
      /\ walker' = [walker EXCEPT ![w].dead = @ \ {p}]
      /\ UNCHANGED <<hub, clients, published, latest, queue, sending, shown, base, byThread>>
  BY DEF Hubs!Discard, Hubs!page, LoopWalk
<1>2. /\ next \in Walks /\ walker' = [walker EXCEPT ![w] = next]
      /\ next.phase = "discard" /\ next.event = walker[w].event /\ next.seen = walker[w].seen
      /\ next.dead = walker[w].dead \ {p}
  BY <1>0, <1>1 DEF HubsWalks, Walks
<1> HIDE DEF next
<1>3. /\ walker' \in [Hubs!Publishers -> Walks]
      /\ \A v \in Hubs!Publishers : walker'[v] = IF v = w THEN next ELSE walker[v]
  BY <1>0, <1>2 DEF HubsWalks
<1>4. HubsTypes' BY <1>0, <1>1 DEF HubsTypes
<1>5. LoopWalk'.phase = LoopWalk.phase /\ LoopWalk'.event = LoopWalk.event /\ LoopWalk'.seen = LoopWalk.seen
  BY <1>0, <1>1, <1>2, <1>3 DEF LoopWalk
<1>6. LoopWalk.phase = "walk" => LoopWalk' = LoopWalk
  BY <1>0, <1>1, <1>3 DEF LoopWalk
<1>7. HubsWalks'
  <2>1. LoopWalk.phase = "walk" /\ LoopWalk.event \notin disturbed' => LoopWalk.size = Hubs!Cardinality(subs')
    <3> SUFFICES ASSUME LoopWalk.phase = "walk", LoopWalk.event \notin disturbed' PROVE LoopWalk.size = Hubs!Cardinality(subs') OBVIOUS
    <3>1. p \notin subs /\ LoopWalk.event \notin disturbed BY <1>1
    <3>2. subs' = subs BY <1>1, <3>1
    <3> QED BY <1>0, <3>1, <3>2 DEF HubsWalks
  <2> QED BY <1>0, <1>1, <1>2, <1>3, <1>5, <1>6, <2>1 DEF HubsWalks
<1>8. \A q \in Pages : LoopWalk.phase # "idle" /\ q # p => (q \in LoopWalk'.dead <=> q \in LoopWalk.dead)
  BY <1>0, <1>2, <1>3 DEF LoopWalk
<1>9. ASSUME hub = "events", NEW q \in subs'
      PROVE  EventsFit(Hubs!Held(q), base[q])' /\ Marked(q, Hubs!Held(q), base[q])'
  <2>1. q \in subs /\ q # p /\ q \in Pages /\ Hubs!Held(q)' = Hubs!Held(q) /\ base'[q] = base[q]
    BY <1>0, <1>1, <1>9 DEF Hubs!Held, HubsTypes
  <2>2. EventsFit(Hubs!Held(q), base[q]) /\ Marked(q, Hubs!Held(q), base[q]) BY <1>9, <2>1 DEF HubsInv
  <2>3. disturbed \subseteq disturbed' BY <1>1
  <2>4. EventsFit(Hubs!Held(q), base[q])' BY <1>1, <1>5, <2>1, <2>2, <2>3 DEF EventsFit
  <2>5. Marked(q, Hubs!Held(q), base[q])' BY <1>1, <1>5, <1>8, <2>1, <2>2, <2>3 DEF Marked
  <2> QED BY <2>4, <2>5
<1>10. ASSUME hub = "audio" PROVE FALSE BY <1>0, <1>1, <1>10 DEF HubsWalks
<1>11. hub' = hub /\ latest' = latest BY <1>1
<1> QED BY <1>4, <1>7, <1>9, <1>10, <1>11 DEF HubsInv

\* A step of a handler, of a publisher or of a thread keeps the invariant.
LEMMA HubsStep == HubsInv /\ [Hubs!Next]_hubs => HubsInv'
<1> SUFFICES ASSUME HubsInv, [Hubs!Next]_hubs PROVE HubsInv' OBVIOUS
<1>0. HubsTypes /\ HubsWalks /\ \A p \in Pages : Hubs!Held(p) \in Seq(Frames) BY HeldFrames DEF HubsInv
<1>a. <<>> \in Seq(Frames) OBVIOUS
<1>b. ASSUME UNCHANGED <<walker, hub, byThread, subs, disturbed>>, published' = published PROVE HubsWalks'
  BY <1>0, <1>b DEF HubsWalks, LoopWalk
<1>1. CASE \E w \in Hubs!Publishers : Hubs!Publish(w) \/ Hubs!WalkEnds(w) \/ Hubs!PublishEnds(w)
  BY <1>1, PublishStep, EndStep
<1>2. CASE \E w \in Hubs!Publishers, p \in Pages : Hubs!Deliver(w, p) \/ Hubs!Discard(w, p)
  BY <1>2, DeliverStep, DiscardStep
<1>c. ASSUME Hubs!LoopFree PROVE LoopWalk.phase = "idle" /\ LoopWalk.event = 0
  BY <1>c DEF Hubs!LoopFree, LoopWalk, Hubs!Idle
<1>5. CASE Hubs!PublishFrame
  <2>1. PICK raw \in Hubs!RawFrames :
          /\ Hubs!ParseFrame(raw) # <<>>
          /\ LET parsed == Hubs!ParseFrame(raw)
                 frame == [n |-> published + 1, encrypted |-> parsed.encrypted, pcm |-> parsed.pcm]
             IN  /\ published' = published + 1
                 /\ latest' = <<[frame EXCEPT !.pcm = FALSE]>>
                 /\ queue' = [p \in Pages |-> IF p \in subs THEN Hubs!Offer(queue[p], frame) ELSE queue[p]]
    BY <1>5 DEF Hubs!PublishFrame
  <2> DEFINE parsed == Hubs!ParseFrame(raw)
             new == [n |-> published + 1, encrypted |-> parsed.encrypted, pcm |-> parsed.pcm]
             quiet1 == [new EXCEPT !.pcm = FALSE]
  <2>2. hub = "audio" /\ UNCHANGED <<hub, clients, subs, sending, shown, base, walker, byThread, disturbed>>
    BY <1>0, <1>5 DEF Hubs!PublishFrame, Hubs!walks, HubsTypes
  <2>3. parsed \in [encrypted : BOOLEAN, pcm : BOOLEAN] /\ ~(parsed.encrypted /\ parsed.pcm)
    BY <2>1 DEF Hubs!ParseFrame, Hubs!RawFrames
  <2>4. /\ new \in Frames /\ new.n = published + 1 /\ ~(new.encrypted /\ new.pcm)
        /\ quiet1 \in Frames /\ quiet1.n = published + 1 /\ quiet1.pcm = FALSE
    <3>1. published + 1 \in Nat /\ parsed.encrypted \in BOOLEAN /\ parsed.pcm \in BOOLEAN
      BY <1>0, <2>3 DEF HubsTypes
    <3> HIDE DEF parsed
    <3>2. new \in Frames /\ new.n = published + 1 /\ new.encrypted = parsed.encrypted /\ new.pcm = parsed.pcm
      BY <3>1 DEF Frames
    <3>3. quiet1 \in Frames /\ quiet1.n = published + 1 /\ quiet1.pcm = FALSE
      BY <3>1 DEF Frames
    <3> QED BY <2>3, <3>2, <3>3
  <2>5. /\ published' = published + 1 /\ latest' = <<quiet1>>
        /\ queue' = [p \in Pages |-> IF p \in subs THEN Hubs!Offer(queue[p], new) ELSE queue[p]]
    BY <2>1
  <2> HIDE DEF parsed, new, quiet1
  <2>6. \A p \in Pages : queue[p] \in Seq(Frames) /\ (Len(queue[p]) >= Limit => queue[p] # <<>>)
    BY <1>0, HubAssumption DEF HubsTypes
  <2>7. \A p \in Pages : Hubs!Offer(queue[p], new) \in Seq(Frames)
    BY <2>4, <2>6, TailOf, AppendOf DEF Hubs!Offer
  <2>8. HubsTypes' BY <1>0, <2>2, <2>4, <2>5, <2>7 DEF HubsTypes
  <2>9. ASSUME NEW p \in subs'
        PROVE  /\ HubsInOrder(Hubs!Held(p)') /\ Silent(Hubs!Held(p)') /\ Newest(Hubs!Held(p))'
               /\ \A i \in DOMAIN Hubs!Held(p)' : Hubs!Held(p)'[i].n <= published'
    <3>1. p \in subs /\ p \in Pages BY <1>0, <2>2, <2>9 DEF HubsTypes
    <3>2. PICK a \in Seq(Frames), b \in Seq(Frames), c \in Seq(Frames) :
            a = shown[p] /\ b = sending[p] /\ c = IF Len(queue[p]) >= Limit THEN Tail(queue[p]) ELSE queue[p]
      <4>1. shown[p] \in Seq(Frames) /\ sending[p] \in Seq(Frames) BY <1>0, <3>1 DEF HubsTypes
      <4>2. (IF Len(queue[p]) >= Limit THEN Tail(queue[p]) ELSE queue[p]) \in Seq(Frames) BY <2>6, <3>1, TailOf
      <4> QED BY <4>1, <4>2
    <3>3. PICK frame \in Frames : frame = new BY <2>4
    <3>4. Hubs!Held(p)' = a \o b \o Append(c, frame) BY <2>2, <2>5, <3>1, <3>2, <3>3 DEF Hubs!Held, Hubs!Offer
    <3>5. PICK held \in Seq(Frames) : held = a \o b \o c BY <3>2, AppendHeld
    <3>6. Hubs!Held(p)' = Append(held, frame)
      <4>1. a \o b \o Append(c, frame) = Append(a \o b \o c, frame) BY AppendHeld, SMTT(40)
      <4> QED BY <3>4, <3>5, <4>1, Zenon
    <3>7. HubsInOrder(held) /\ Silent(held) /\ \A i \in DOMAIN held : held[i].n <= published
      <4>1. /\ HubsInOrder(Hubs!Held(p)) /\ Silent(Hubs!Held(p))
            /\ \A i \in DOMAIN Hubs!Held(p) : Hubs!Held(p)[i].n <= published
        BY <2>2, <3>1 DEF HubsInv
      <4>2. CASE Len(queue[p]) >= Limit
        <5>1. PICK q \in Seq(Frames) : q = queue[p] /\ q # <<>> BY <2>6, <3>1, <4>2
        <5>2. Hubs!Held(p) = a \o b \o q /\ held = a \o b \o Tail(q) BY <3>2, <3>5, <4>2, <5>1 DEF Hubs!Held
        <5>3. /\ q # <<>> /\ HubsInOrder(a \o b \o q) /\ Silent(a \o b \o q)
              /\ \A i \in DOMAIN (a \o b \o q) : (a \o b \o q)[i].n <= published
          BY <4>1, <5>1, <5>2
        <5>4. LET t == a \o b \o Tail(q)
              IN  t \in Seq(Frames) /\ HubsInOrder(t) /\ Silent(t) /\ \A i \in DOMAIN t : t[i].n <= published
          BY <5>3, FrameDropped
        <5> QED BY <5>2, <5>4
      <4>3. CASE ~(Len(queue[p]) >= Limit)
        <5>1. Hubs!Held(p) = held BY <3>2, <3>5, <4>3 DEF Hubs!Held
        <5> QED BY <4>1, <5>1
      <4> QED BY <4>2, <4>3
    <3>8. /\ HubsInOrder(Append(held, frame)) /\ Silent(Append(held, frame)) /\ Newest(Append(held, frame))'
          /\ \A i \in DOMAIN Append(held, frame) : Append(held, frame)[i].n <= published'
      <4>1. published \in Nat /\ frame.n = published + 1 /\ ~(frame.encrypted /\ frame.pcm)
        BY <1>0, <2>4, <3>3 DEF HubsTypes
      <4> QED BY <2>5, <3>7, <4>1, FrameAppended
    <3>9. Newest(Hubs!Held(p))' BY <3>6, <3>8 DEF Newest
    <3> QED BY <3>6, <3>8, <3>9
  <2>10. /\ \A i \in DOMAIN latest' : i = 1 /\ latest'[i].n = published' /\ ~latest'[i].pcm
         /\ Len(latest') = 1
    BY <2>4, <2>5
  <2>11. \A p \in subs' : (HubsInOrder(Hubs!Held(p)) /\ Silent(Hubs!Held(p)))'
    BY <2>9 DEF HubsInOrder, Silent
  <2>12. HubsWalks'
    <3>1. "loop" \in Hubs!Publishers BY DEF Hubs!Publishers
    <3>2. \A w \in Hubs!Publishers : walker[w].phase = "idle" BY <1>0, <2>2, <3>1 DEF HubsWalks
    <3> QED BY <1>0, <2>2, <3>1, <3>2 DEF HubsWalks, LoopWalk
  <2> QED BY <2>2, <2>8, <2>9, <2>10, <2>11, <2>12 DEF HubsInv
<1>6. CASE Hubs!Connect \/ Hubs!Disconnect
  <2>1. /\ clients' \in Nat /\ (clients' > 0 => hub = "audio")
        /\ UNCHANGED <<hub, published, latest, subs, queue, sending, shown, base, walker, byThread, disturbed>>
    BY <1>0, <1>6 DEF Hubs!Connect, Hubs!Disconnect, Hubs!page, Hubs!walks, HubsTypes
  <2>2. HubsTypes' BY <1>0, <2>1 DEF HubsTypes
  <2>3. HubsWalks' BY <1>b, <2>1
  <2>4. LoopWalk' = LoopWalk BY <2>1 DEF LoopWalk
  <2> QED BY <2>1, <2>2, <2>3, <2>4, HubsQuiet DEF Hubs!Held
<1>7. ASSUME NEW p \in Pages, Hubs!Open(p) PROVE HubsInv'
  <2>1. /\ subs' = subs \cup {p} /\ base' = [base EXCEPT ![p] = published] /\ sending' = [sending EXCEPT ![p] = latest]
        /\ queue' = [queue EXCEPT ![p] = <<>>] /\ shown' = [shown EXCEPT ![p] = <<>>]
        /\ UNCHANGED <<hub, clients, published, latest, walker, byThread, disturbed>>
    BY <1>7 DEF Hubs!Open, Hubs!walks
  <2>0. Hubs!LoopFree BY <1>7 DEF Hubs!Open
  <2>2. HubsTypes' BY <1>0, <1>a, <2>1 DEF HubsTypes
  <2>3. Hubs!Held(p)' = latest /\ base'[p] = published
    <3>1. Hubs!Held(p)' = <<>> \o latest \o <<>> /\ base'[p] = published BY <1>0, <2>1 DEF HubsTypes, Hubs!Held
    <3>2. latest \in Seq(Frames) BY <1>0 DEF HubsTypes
    <3> QED BY <1>a, <3>1, <3>2, MoveHeld
  <2>4. ASSUME NEW q \in subs', q # p
        PROVE  q \in subs /\ Hubs!Held(q)' = Hubs!Held(q) /\ base'[q] = base[q]
    BY <1>0, <2>1, <2>4 DEF HubsTypes, Hubs!Held
  <2>7. LoopWalk' = LoopWalk /\ LoopWalk.phase = "idle" BY <1>c, <2>0, <2>1 DEF LoopWalk
  <2>8. HubsWalks' BY <1>0, <2>1, <2>7 DEF HubsWalks
  <2>5. ASSUME hub = "events", NEW q \in subs'
        PROVE  EventsFit(Hubs!Held(q), base[q])' /\ Marked(q, Hubs!Held(q), base[q])'
    <3>0. Marked(q, Hubs!Held(q), base[q])' BY <2>7 DEF Marked
    <3>1. CASE q # p BY <2>1, <2>4, <2>5, <2>7, <3>0, <3>1 DEF HubsInv, EventsFit
    <3>2. CASE q = p
      <4>1. latest = <<>> /\ DOMAIN latest = {} /\ published \in Nat BY <1>0, <2>5 DEF HubsInv, HubsTypes
      <4> QED BY <2>1, <2>3, <3>0, <3>2, <4>1 DEF EventsFit
    <3> QED BY <3>1, <3>2
  <2>6. ASSUME hub = "audio", NEW q \in subs'
        PROVE  /\ (HubsInOrder(Hubs!Held(q)) /\ Silent(Hubs!Held(q)) /\ Newest(Hubs!Held(q)))'
               /\ (\A i \in DOMAIN Hubs!Held(q) : Hubs!Held(q)[i].n <= published)'
    <3>1. CASE q # p BY <2>1, <2>4, <2>6, <3>1 DEF HubsInv, HubsInOrder, Silent, Newest
    <3>2. CASE q = p
      <4>1. /\ latest \in Seq(Frames) /\ \A i \in DOMAIN latest : i = 1 /\ latest[i].n = published /\ ~latest[i].pcm
            /\ published > 0 => Len(latest) = 1
        BY <1>0, <2>6 DEF HubsInv, HubsTypes
      <4>2. published > 0 => latest # <<>> /\ latest[Len(latest)].n = published
        <5> SUFFICES ASSUME published > 0 PROVE latest # <<>> /\ latest[Len(latest)].n = published OBVIOUS
        <5>1. Len(latest) = 1 BY <4>1
        <5>2. DOMAIN latest = 1 .. 1 /\ latest # <<>>
          <6>1. DOMAIN latest = 1 .. Len(latest) BY <4>1, LenProperties
          <6> QED BY <5>1, <6>1
        <5> QED BY <4>1, <5>1, <5>2
      <4>3. published \in Nat BY <1>0 DEF HubsTypes
      <4> QED BY <2>1, <2>3, <3>2, <4>1, <4>2, <4>3 DEF HubsInOrder, Silent, Newest
    <3> QED BY <3>1, <3>2
  <2> QED BY <2>1, <2>2, <2>5, <2>6, <2>8 DEF HubsInv
<1>8. ASSUME NEW p \in Pages, Hubs!Take(p) PROVE HubsInv'
  <2>1. /\ sending[p] = <<>> /\ queue[p] # <<>> /\ sending' = [sending EXCEPT ![p] = <<Head(queue[p])>>]
        /\ queue' = [queue EXCEPT ![p] = Tail(queue[p])]
        /\ UNCHANGED <<hub, clients, published, latest, subs, shown, base, walker, byThread, disturbed>>
    BY <1>8 DEF Hubs!Take, Hubs!walks
  <2>2. queue[p] \in Seq(Frames) /\ shown[p] \in Seq(Frames) BY <1>0 DEF HubsTypes
  <2>3. Tail(queue[p]) \in Seq(Frames) /\ <<Head(queue[p])>> \in Seq(Frames) BY <2>1, <2>2, TailOf
  <2>4. HubsTypes' BY <1>0, <2>1, <2>3 DEF HubsTypes
  <2>5. Hubs!Held(p)' = Hubs!Held(p)
    <3>1. Hubs!Held(p)' = shown[p] \o <<Head(queue[p])>> \o Tail(queue[p]) BY <1>0, <2>1 DEF HubsTypes, Hubs!Held
    <3>2. Hubs!Held(p) = shown[p] \o <<>> \o queue[p] BY <2>1 DEF Hubs!Held
    <3>3. PICK a \in Seq(Frames), c \in Seq(Frames) : a = shown[p] /\ c = queue[p] BY <2>2
    <3>4. c # <<>> BY <2>1, <3>3
    <3>5. (a \o <<Head(c)>>) \o Tail(c) = (a \o <<>>) \o c BY <3>4, MoveHeld
    <3> QED BY <3>1, <3>2, <3>3, <3>5
  <2>6. \A q \in Pages : q # p => Hubs!Held(q)' = Hubs!Held(q) BY <1>0, <2>1 DEF HubsTypes, Hubs!Held
  <2>7. \A q \in subs' : q \in subs /\ Hubs!Held(q)' = Hubs!Held(q) /\ base'[q] = base[q]
    BY <1>0, <2>1, <2>5, <2>6 DEF HubsTypes
  <2>8. HubsWalks' BY <1>b, <2>1
  <2>9. LoopWalk' = LoopWalk BY <2>1 DEF LoopWalk
  <2> QED BY <2>1, <2>4, <2>7, <2>8, <2>9, HubsQuiet
<1>9. ASSUME NEW p \in Pages, Hubs!Sent(p) PROVE HubsInv'
  <2>1. /\ shown' = [shown EXCEPT ![p] = shown[p] \o sending[p]] /\ sending' = [sending EXCEPT ![p] = <<>>]
        /\ UNCHANGED <<hub, clients, published, latest, subs, queue, base, walker, byThread, disturbed>>
    BY <1>9 DEF Hubs!Sent, Hubs!walks
  <2>2. queue[p] \in Seq(Frames) /\ shown[p] \in Seq(Frames) /\ sending[p] \in Seq(Frames) BY <1>0 DEF HubsTypes
  <2>3. shown[p] \o sending[p] \in Seq(Frames) BY <2>2, ConcatProperties
  <2>4. HubsTypes' BY <1>0, <1>a, <2>1, <2>3 DEF HubsTypes
  <2>5. Hubs!Held(p)' = Hubs!Held(p)
    <3>1. Hubs!Held(p)' = (shown[p] \o sending[p]) \o <<>> \o queue[p] BY <1>0, <2>1 DEF HubsTypes, Hubs!Held
    <3> QED BY <2>2, <3>1, MoveHeld DEF Hubs!Held
  <2>6. \A q \in Pages : q # p => Hubs!Held(q)' = Hubs!Held(q) BY <1>0, <2>1 DEF HubsTypes, Hubs!Held
  <2>7. \A q \in subs' : q \in subs /\ Hubs!Held(q)' = Hubs!Held(q) /\ base'[q] = base[q]
    BY <1>0, <2>1, <2>5, <2>6 DEF HubsTypes
  <2>8. HubsWalks' BY <1>b, <2>1
  <2>9. LoopWalk' = LoopWalk BY <2>1 DEF LoopWalk
  <2> QED BY <2>1, <2>4, <2>7, <2>8, <2>9, HubsQuiet
<1>10. ASSUME NEW p \in Pages, Hubs!SendFails(p) PROVE HubsInv'
  <2>1. /\ subs' = subs \ {p} /\ base' = [base EXCEPT ![p] = 0] /\ sending' = [sending EXCEPT ![p] = <<>>]
        /\ queue' = [queue EXCEPT ![p] = <<>>] /\ shown' = [shown EXCEPT ![p] = <<>>]
        /\ UNCHANGED <<hub, clients, published, latest, byThread, disturbed>>
    BY <1>10 DEF Hubs!SendFails, Hubs!Forgotten
  <2>2. HubsTypes' BY <1>0, <1>a, <2>1 DEF HubsTypes
  <2>3. \A q \in subs' : q \in subs /\ Hubs!Held(q)' = Hubs!Held(q) /\ base'[q] = base[q]
    BY <1>0, <2>1 DEF HubsTypes, Hubs!Held
  <2> DEFINE less(w) == [walker[w] EXCEPT !.todo = @ \ {p}, !.seen = @ \ {p}, !.dead = @ \ {p}]
  <2>4. walker' = [w \in Hubs!Publishers |-> less(w)] /\ Hubs!LoopFree BY <1>10 DEF Hubs!SendFails
  <2>5. \A w \in Hubs!Publishers :
          /\ less(w) \in Walks /\ less(w).phase = walker[w].phase /\ less(w).event = walker[w].event
    <3>1. \A w \in Hubs!Publishers : walker[w] \in Walks BY <1>0 DEF HubsWalks
    <3> QED BY <3>1 DEF Walks
  <2> HIDE DEF less
  <2>6. walker' \in [Hubs!Publishers -> Walks] /\ \A w \in Hubs!Publishers : walker'[w] = less(w) BY <2>4, <2>5
  <2>7. LoopWalk.phase = "idle" /\ LoopWalk'.phase = "idle" /\ LoopWalk.event = 0 /\ LoopWalk'.event = 0
    <3>1. "loop" \in Hubs!Publishers BY DEF Hubs!Publishers
    <3> QED BY <1>c, <2>4, <2>5, <2>6, <3>1 DEF LoopWalk
  <2>8. HubsWalks' BY <1>0, <2>1, <2>5, <2>6, <2>7 DEF HubsWalks
  <2> QED BY <2>1, <2>2, <2>3, <2>7, <2>8, HubsQuiet
<1>11. CASE UNCHANGED <<hub, clients, published, latest, subs, queue, sending, shown, base, walker, byThread, disturbed>>
  <2>1. HubsTypes' BY <1>0, <1>11 DEF HubsTypes
  <2>2. HubsWalks' BY <1>b, <1>11
  <2>3. LoopWalk' = LoopWalk BY <1>11 DEF LoopWalk
  <2> QED BY <1>11, <2>1, <2>2, <2>3, HubsQuiet DEF Hubs!Held
<1>12. CASE Hubs!Next
  BY <1>1, <1>2, <1>5, <1>6, <1>7, <1>8, <1>9, <1>10, <1>11, <1>12 DEF Hubs!Next, Hubs!Leave, Hubs!walks
<1>13. CASE UNCHANGED hubs BY <1>11, <1>13 DEF hubs
<1> QED BY <1>12, <1>13

--------------------------------------------------------------------------------
(* KISS                                                                     *)

\* everything that is read of a payload, and what an escape stands for
KissBytes == Kiss!Bytes \cup {"FESC", "TFESC"}
Received == [payload : Seq(KissBytes), of : Nat, whole : BOOLEAN]

KissTypes ==
  /\ sent \in Seq(Kiss!Payloads)
  /\ place \in [frame : Nat, pos : Nat, half : BOOLEAN]
  /\ inFrame \in BOOLEAN /\ esc \in BOOLEAN /\ spoiled \in BOOLEAN
  /\ buf \in Seq(KissBytes) /\ frames \in Seq(Received)

\* The cursor is in a frame that is sent, or before the next.
KissPlace ==
  /\ place.frame \in 1 .. Len(sent) + 1
  /\ place.frame = Len(sent) + 1 => place.pos = 0
  /\ place.frame <= Len(sent) => place.pos <= Len(Kiss!Payload) + 1
  /\ place.pos = 0 => ~place.half
  /\ place.half => Kiss!Escapes

\* What the decoder holds is the payload up to the cursor, unless a connection ended in it.
KissBuffer ==
  /\ place.pos # 0 => inFrame /\ esc = place.half
  /\ ~spoiled /\ place.pos = 0 => buf = <<>> /\ ~esc
  /\ ~spoiled /\ place.pos # 0 =>
       /\ Len(buf) = place.pos - 1
       /\ \A i \in 1 .. place.pos - 1 : buf[i] = Kiss!Payload[i]
  /\ spoiled => inFrame /\ (esc \/ buf # <<>>)
  /\ spoiled /\ place.pos # 0 => buf # <<>>

\* What has been handed on.
KissFrames ==
  /\ \A i \in DOMAIN frames : frames[i].of \in DOMAIN sent
  /\ \A i \in DOMAIN frames :
       frames[i].whole => frames[i].payload = sent[frames[i].of] /\ frames[i].of < place.frame
  /\ \A i, j \in DOMAIN frames : i < j => frames[i].of < frames[j].of \/ ~frames[i].whole
  /\ \A n \in DOMAIN sent : n < place.frame /\ n \notin lost => \E i \in DOMAIN frames : frames[i].of = n

KissInv == KissTypes /\ KissPlace /\ KissBuffer /\ KissFrames

--------------------------------------------------------------------------------
\* A payload has a byte.
LEMMA PayloadOf ==
  ASSUME NEW payload \in Kiss!Payloads
  PROVE  /\ payload \in Seq(Kiss!Bytes) /\ Len(payload) \in Nat \ {0} /\ DOMAIN payload = 1 .. Len(payload)
         /\ \A i \in DOMAIN payload : payload[i] \in Kiss!Bytes
<1>1. PICK n \in 1 .. MaxBytes : payload \in [1 .. n -> Kiss!Bytes] BY DEF Kiss!Payloads
<1>2. n \in Nat \ {0} BY KissAssumption
<1> QED BY <1>1, <1>2

\* The frames that were handed on, and the cursor, give the promise.
LEMMA KissImply == KissInv => Kiss!FramesWhole
<1> SUFFICES ASSUME KissInv PROVE Kiss!FramesWhole OBVIOUS
<1>1. Len(sent) \in Nat /\ DOMAIN sent = 1 .. Len(sent) /\ place.frame \in Nat
  BY DEF KissInv, KissTypes
<1>2. ASSUME Kiss!Unread = {}, NEW n \in DOMAIN sent \ lost
      PROVE  \E i \in DOMAIN frames : frames[i].of = n
  <2>1. n < place.frame BY <1>1, <1>2 DEF Kiss!Unread
  <2> QED BY <1>2, <2>1 DEF KissInv, KissFrames
<1> QED BY <1>2 DEF KissInv, KissFrames, Kiss!FramesWhole

\* Nothing is sent, and the decoder is outside a frame.
LEMMA KissInit == Kiss!Init => KissInv
<1> SUFFICES ASSUME Kiss!Init PROVE KissInv OBVIOUS
<1>1. place = [frame |-> 1, pos |-> 0, half |-> FALSE] /\ sent = <<>> /\ buf = <<>> /\ frames = <<>>
  BY DEF Kiss!Init, Kiss!Start
<1>2. KissTypes
  <2>1. place \in [frame : Nat, pos : Nat, half : BOOLEAN] BY <1>1
  <2>2. sent \in Seq(Kiss!Payloads) /\ buf \in Seq(KissBytes) /\ frames \in Seq(Received) BY <1>1
  <2>3. inFrame = FALSE /\ esc = FALSE /\ spoiled = FALSE BY DEF Kiss!Init
  <2> QED BY <2>1, <2>2, <2>3 DEF KissTypes
<1>3. KissPlace BY <1>1 DEF KissPlace
<1>4. KissBuffer BY <1>1 DEF Kiss!Init, KissBuffer
<1>5. KissFrames BY <1>1 DEF KissFrames
<1> QED BY <1>2, <1>3, <1>4, <1>5 DEF KissInv

\* Another frame behind those that are sent changes nothing for them.
LEMMA SendKeeps == ASSUME KissInv, Kiss!Send PROVE KissInv'
<1>1. PICK payload \in Kiss!Payloads : sent' = Append(sent, payload) BY DEF Kiss!Send
<1>2. UNCHANGED <<place, inFrame, esc, buf, frames, spoiled, lost>> BY DEF Kiss!Send, Kiss!decoder
<1>3. /\ sent' \in Seq(Kiss!Payloads) /\ Len(sent') = Len(sent) + 1 /\ Len(sent) \in Nat
      /\ DOMAIN sent = 1 .. Len(sent) /\ DOMAIN sent' = 1 .. Len(sent) + 1
      /\ \A i \in DOMAIN sent : sent'[i] = sent[i]
  BY <1>1, AppendOf DEF KissInv, KissTypes
<1>4. /\ place.frame \in 1 .. Len(sent) + 1 /\ place.frame \in Nat /\ place.pos \in Nat
      /\ place.frame # Len(sent) + 1 => place.frame \in DOMAIN sent
  BY <1>3 DEF KissInv, KissTypes, KissPlace
<1>7. KissTypes' BY <1>2, <1>3 DEF KissInv, KissTypes
<1>8. KissFrames'
  <2>1. \A n \in DOMAIN sent' : n < place.frame => n \in DOMAIN sent BY <1>3, <1>4
  <2> QED BY <1>2, <1>3, <2>1 DEF KissInv, KissFrames
<1>5. CASE place.frame = Len(sent) + 1
  <2>1. place.pos = 0 /\ ~place.half BY <1>5 DEF KissInv, KissPlace
  <2>2. sent'[place.frame] \in Kiss!Payloads BY <1>3, <1>5
  <2>3. Len(sent'[place.frame]) \in Nat BY <2>2, PayloadOf
  <2>4. KissPlace' BY <1>2, <1>3, <1>4, <1>5, <2>1, <2>3 DEF KissPlace, Kiss!Payload
  <2>5. KissBuffer' BY <1>2, <2>1 DEF KissInv, KissBuffer
  <2> QED BY <1>7, <1>8, <2>4, <2>5 DEF KissInv
<1>6. CASE place.frame # Len(sent) + 1
  <2>1. sent'[place.frame] = sent[place.frame] BY <1>3, <1>4, <1>6
  <2>2. Kiss!Payload' = Kiss!Payload BY <1>2, <2>1 DEF Kiss!Payload
  <2>3. Kiss!Escapes' = Kiss!Escapes BY <1>2, <2>2 DEF Kiss!Escapes, Kiss!InPayload
  <2>4. KissPlace' BY <1>2, <1>3, <1>4, <1>6, <2>2, <2>3 DEF KissInv, KissPlace
  <2>5. KissBuffer' BY <1>2, <2>2 DEF KissInv, KissBuffer
  <2> QED BY <1>7, <1>8, <2>4, <2>5 DEF KissInv
<1> QED BY <1>5, <1>6

\* A connection that ends takes what is left of it; the decoder keeps what it holds.
LEMMA DropKeeps == ASSUME KissInv, Kiss!Drop PROVE KissInv'
<1>1. /\ place' = [frame |-> Len(sent) + 1, pos |-> 0, half |-> FALSE]
      /\ spoiled' = (spoiled \/ buf # <<>> \/ esc) /\ lost' = lost \cup (place.frame .. Len(sent))
      /\ UNCHANGED <<sent, inFrame, esc, buf, frames>>
  BY DEF Kiss!Drop, Kiss!Start, Kiss!Unread, Kiss!decoder
<1>2. Len(sent) \in Nat /\ DOMAIN sent = 1 .. Len(sent) /\ place.frame \in Nat
  BY DEF KissInv, KissTypes
<1>3. /\ place'.frame = Len(sent) + 1 /\ place'.pos = 0 /\ ~place'.half BY <1>1
<1>4. KissTypes' BY <1>1, <1>2 DEF KissInv, KissTypes
<1>5. KissPlace' BY <1>1, <1>2, <1>3 DEF KissPlace
<1>6. spoiled' => inFrame BY <1>1 DEF KissInv, KissTypes, KissBuffer
<1>7. KissBuffer' BY <1>1, <1>3, <1>6 DEF KissInv, KissTypes, KissBuffer
<1>8. KissFrames'
  <2>1. \A n \in DOMAIN sent : n < place.frame \/ n \in lost' BY <1>1, <1>2
  <2>2. \A i \in DOMAIN frames : frames[i].of < place'.frame BY <1>2, <1>3 DEF KissInv, KissFrames
  <2> QED BY <1>1, <2>1, <2>2 DEF KissInv, KissFrames
<1> QED BY <1>4, <1>5, <1>7, <1>8 DEF KissInv

\* A consumer that leaves takes what is left, and the decoder with it.
LEMMA LeaveKeeps == ASSUME KissInv, Kiss!Leave PROVE KissInv'
<1>1. /\ place' = [frame |-> Len(sent) + 1, pos |-> 0, half |-> FALSE]
      /\ inFrame' = FALSE /\ esc' = FALSE /\ buf' = <<>> /\ spoiled' = FALSE
      /\ lost' = lost \cup (place.frame .. Len(sent)) /\ UNCHANGED <<sent, frames>>
  BY DEF Kiss!Leave, Kiss!Start, Kiss!Unread
<1>2. Len(sent) \in Nat /\ DOMAIN sent = 1 .. Len(sent) /\ place.frame \in Nat
  BY DEF KissInv, KissTypes
<1>3. place'.frame = Len(sent) + 1 /\ place'.pos = 0 /\ ~place'.half BY <1>1
<1>4. KissTypes'
  <2>1. place' \in [frame : Nat, pos : Nat, half : BOOLEAN] BY <1>1, <1>2
  <2>2. buf' \in Seq(KissBytes) BY <1>1
  <2>3. sent' \in Seq(Kiss!Payloads) /\ frames' \in Seq(Received) BY <1>1 DEF KissInv, KissTypes
  <2> QED BY <1>1, <2>1, <2>2, <2>3 DEF KissTypes
<1>5. KissPlace' BY <1>1, <1>2, <1>3 DEF KissPlace
<1>6. KissBuffer' BY <1>1, <1>3 DEF KissBuffer
<1>7. KissFrames'
  <2>1. \A n \in DOMAIN sent : n < place.frame \/ n \in lost' BY <1>1, <1>2
  <2>2. \A i \in DOMAIN frames : frames[i].of < place'.frame BY <1>2, <1>3 DEF KissInv, KissFrames
  <2> QED BY <1>1, <2>1, <2>2 DEF KissInv, KissFrames
<1> QED BY <1>4, <1>5, <1>6, <1>7 DEF KissInv
--------------------------------------------------------------------------------
\* The byte at the cursor: the mark before a payload and the one behind it, a byte of it or
\* the first of the two it is escaped by, or what the escape is read as.
LEMMA AtCursor ==
  ASSUME KissInv, place.frame <= Len(sent)
  PROVE  /\ Kiss!Payload \in Kiss!Payloads /\ place.frame \in DOMAIN sent /\ place.frame \in Nat
         /\ place.pos \in Nat /\ place.pos <= Len(Kiss!Payload) + 1 /\ Len(Kiss!Payload) \in Nat \ {0}
         /\ \/ /\ place.pos = 0 /\ ~place.half /\ Kiss!Byte = "FEND"
               /\ Kiss!NextPlace = [place EXCEPT !.pos = @ + 1, !.half = FALSE]
            \/ /\ place.pos \in 1 .. Len(Kiss!Payload) /\ Kiss!Escapes /\ ~place.half /\ Kiss!Byte = "FESC"
               /\ Kiss!NextPlace = [place EXCEPT !.half = TRUE]
            \/ /\ place.pos \in 1 .. Len(Kiss!Payload) /\ Kiss!Payload[place.pos] \in KissBytes
               /\ place.half => Kiss!Unescaped(Kiss!Byte) = Kiss!Payload[place.pos]
               /\ ~place.half => Kiss!Byte = Kiss!Payload[place.pos] /\ Kiss!Byte \notin {"FEND", "FESC"}
               /\ Kiss!NextPlace = [place EXCEPT !.pos = @ + 1, !.half = FALSE]
            \/ /\ place.pos = Len(Kiss!Payload) + 1 /\ ~place.half /\ Kiss!Byte = "FEND"
               /\ Kiss!NextPlace = [frame |-> place.frame + 1, pos |-> 0, half |-> FALSE]
<1> DEFINE payload == Kiss!Payload
<1>1. /\ place.frame \in DOMAIN sent /\ place.frame \in Nat /\ place.pos \in Nat
      /\ payload \in Kiss!Payloads /\ place.pos <= Len(payload) + 1 /\ place.half \in BOOLEAN
  BY DEF KissInv, KissTypes, KissPlace, Kiss!Payload
<1>2. /\ Len(payload) \in Nat \ {0} /\ DOMAIN payload = 1 .. Len(payload)
      /\ \A i \in DOMAIN payload : payload[i] \in Kiss!Bytes
  BY <1>1, PayloadOf
<1>3. /\ Kiss!InPayload <=> place.pos \in 1 .. Len(payload)
      /\ Kiss!Escapes <=> Kiss!InPayload /\ payload[place.pos] \in {"FEND", "FESC"}
      /\ place.pos = 0 => ~place.half
      /\ place.half => Kiss!Escapes
  BY <1>2 DEF Kiss!InPayload, Kiss!Escapes, KissInv, KissPlace
<1>4. Kiss!Byte =
        IF ~Kiss!InPayload THEN "FEND"
        ELSE IF ~Kiss!Escapes THEN payload[place.pos]
        ELSE IF ~place.half THEN "FESC"
        ELSE IF payload[place.pos] = "FEND" THEN "TFEND" ELSE "TFESC"
  BY DEF Kiss!Byte
<1>5. Kiss!NextPlace =
        IF Kiss!Escapes /\ ~place.half THEN [place EXCEPT !.half = TRUE]
        ELSE IF place.pos > Len(payload) THEN [frame |-> place.frame + 1, pos |-> 0, half |-> FALSE]
        ELSE [place EXCEPT !.pos = @ + 1, !.half = FALSE]
  BY DEF Kiss!NextPlace, Kiss!Start
<1> HIDE DEF payload
<1>6. CASE place.pos = 0
  <2>1. ~Kiss!InPayload /\ ~place.half /\ ~(place.pos > Len(payload)) BY <1>2, <1>3, <1>6
  <2> QED BY <1>1, <1>2, <1>3, <1>4, <1>5, <1>6, <2>1 DEF payload
<1>7. CASE place.pos \in 1 .. Len(payload) /\ Kiss!Escapes /\ ~place.half
  BY <1>1, <1>2, <1>4, <1>5, <1>7, <1>3 DEF payload
<1>8. CASE place.pos \in 1 .. Len(payload) /\ ~(Kiss!Escapes /\ ~place.half)
  <2>1. ~(place.pos > Len(payload)) /\ Kiss!InPayload BY <1>2, <1>3, <1>8
  <2>2. Kiss!NextPlace = [place EXCEPT !.pos = @ + 1, !.half = FALSE] BY <1>5, <1>8, <2>1
  <2>3. payload[place.pos] \in Kiss!Bytes BY <1>2, <1>8
  <2>4. CASE place.half
    <3>1. Kiss!Escapes /\ payload[place.pos] \in {"FEND", "FESC"} BY <1>3, <2>4
    <3>2. Kiss!Unescaped(Kiss!Byte) = payload[place.pos]
      BY <1>4, <2>1, <2>4, <3>1 DEF Kiss!Unescaped
    <3> QED BY <1>1, <1>2, <1>8, <2>2, <2>3, <2>4, <3>2 DEF payload, KissBytes
  <2>5. CASE ~place.half
    <3>1. ~Kiss!Escapes /\ payload[place.pos] \notin {"FEND", "FESC"} BY <1>3, <1>8, <2>1, <2>5
    <3>2. Kiss!Byte = payload[place.pos] BY <1>4, <2>1, <3>1
    <3> QED BY <1>1, <1>2, <1>8, <2>2, <2>3, <2>5, <3>1, <3>2 DEF payload, KissBytes
  <2> QED BY <2>4, <2>5
<1>9. CASE place.pos = Len(payload) + 1
  <2>1. ~Kiss!InPayload /\ ~Kiss!Escapes /\ ~place.half /\ place.pos > Len(payload) BY <1>2, <1>3, <1>9
  <2> QED BY <1>1, <1>2, <1>4, <1>5, <1>9, <2>1 DEF payload
<1>10. place.pos = 0 \/ place.pos \in 1 .. Len(payload) \/ place.pos = Len(payload) + 1
  BY <1>1, <1>2
<1> QED BY <1>6, <1>7, <1>8, <1>9, <1>10
\* What the decoder does with the byte (KissDecoder.feed), as far as the invariant needs it.
LEMMA Fed ==
  ASSUME KissTypes, Kiss!Feed
  PROVE  LET ends == inFrame /\ ~esc /\ Kiss!Byte = "FEND" IN
         /\ place.frame <= Len(sent)
         /\ place' = Kiss!NextPlace /\ UNCHANGED <<sent, lost>>
         /\ inFrame' = (inFrame \/ Kiss!Byte = "FEND") /\ esc' = (inFrame /\ ~esc /\ Kiss!Byte = "FESC")
         /\ ~inFrame \/ ends => buf' = <<>>
         /\ inFrame /\ ~ends =>
              /\ esc => buf' = Append(buf, Kiss!Unescaped(Kiss!Byte))
              /\ ~esc => buf' = IF Kiss!Byte = "FESC" THEN buf ELSE Append(buf, Kiss!Byte)
         /\ ends /\ buf # <<>> =>
              frames' = Append(frames, [payload |-> buf, of |-> place.frame, whole |-> ~spoiled])
         /\ ~(ends /\ buf # <<>>) => frames' = frames
         /\ spoiled' = (spoiled /\ ~ends)
<1>1. Len(sent) \in Nat /\ place.frame \in Nat BY DEF KissTypes
<1>2. place.frame <= Len(sent) BY <1>1 DEF Kiss!Feed, Kiss!Unread
<1> QED BY <1>2 DEF Kiss!Feed

\* What a step of the cursor within a frame leaves as it was.
LEMMA SameFrame ==
  ASSUME KissInv, UNCHANGED <<sent, lost, frames>>, place'.frame = place.frame
  PROVE  KissFrames' /\ Kiss!Payload' = Kiss!Payload
BY DEF KissInv, KissFrames, Kiss!Payload

\* Every byte the socket gives keeps the invariant.
LEMMA FeedKeeps == ASSUME KissInv, Kiss!Feed PROVE KissInv'
<1> DEFINE byte == Kiss!Byte
           ends == inFrame /\ ~esc /\ byte = "FEND"
           payload == Kiss!Payload
<1>1. /\ place.frame <= Len(sent)
      /\ place' = Kiss!NextPlace /\ UNCHANGED <<sent, lost>>
      /\ inFrame' = (inFrame \/ byte = "FEND") /\ esc' = (inFrame /\ ~esc /\ byte = "FESC")
      /\ ~inFrame \/ ends => buf' = <<>>
      /\ inFrame /\ ~ends =>
           /\ esc => buf' = Append(buf, Kiss!Unescaped(byte))
           /\ ~esc => buf' = IF byte = "FESC" THEN buf ELSE Append(buf, byte)
      /\ ends /\ buf # <<>> =>
           frames' = Append(frames, [payload |-> buf, of |-> place.frame, whole |-> ~spoiled])
      /\ ~(ends /\ buf # <<>>) => frames' = frames
      /\ spoiled' = (spoiled /\ ~ends)
  BY Fed DEF KissInv
<1>2. /\ KissTypes /\ KissPlace /\ KissBuffer /\ KissFrames
      /\ Len(sent) \in Nat /\ DOMAIN sent = 1 .. Len(sent) /\ place.frame \in Nat
  BY DEF KissInv, KissTypes
<1>3. place.frame <= Len(sent) BY <1>1
<1>4. /\ payload \in Kiss!Payloads /\ place.frame \in DOMAIN sent
      /\ place.pos \in Nat /\ place.pos <= Len(payload) + 1 /\ Len(payload) \in Nat \ {0}
  BY <1>3, AtCursor
<1>5. payload \in Seq(Kiss!Bytes) /\ DOMAIN payload = 1 .. Len(payload) BY <1>4, PayloadOf
<1>6. CASE /\ place.pos = 0 /\ ~place.half /\ byte = "FEND"
           /\ Kiss!NextPlace = [place EXCEPT !.pos = @ + 1, !.half = FALSE]
  <2>1. place' = [frame |-> place.frame, pos |-> 1, half |-> FALSE]
    <3>1. place' = [frame |-> place.frame, pos |-> place.pos + 1, half |-> FALSE]
      BY <1>1, <1>2, <1>6 DEF KissTypes
    <3> QED BY <1>6, <3>1
  <2>0. place'.pos = 1 /\ place'.half = FALSE /\ place'.pos - 1 = 0 BY <2>1
  <2>2. CASE esc
    <3>1. spoiled /\ inFrame BY <1>2, <1>6, <2>2 DEF KissTypes, KissBuffer
    <3>2. ~ends /\ buf' = Append(buf, "FEND") /\ frames' = frames /\ spoiled' /\ inFrame' /\ esc' = FALSE
      BY <1>1, <1>6, <2>2, <3>1 DEF Kiss!Unescaped, KissTypes
    <3>3. buf' \in Seq(KissBytes) /\ buf' # <<>>
      <4>1. "FEND" \in KissBytes BY DEF KissBytes, Kiss!Bytes
      <4> QED BY <1>2, <3>2, <4>1 DEF KissTypes
    <3>4. KissFrames' /\ Kiss!Payload' = payload BY <1>1, <2>1, <3>2, SameFrame
    <3>5. KissTypes' BY <1>1, <1>2, <2>1, <3>2, <3>3 DEF KissTypes
    <3>6. KissPlace' BY <1>1, <1>2, <1>3, <1>4, <2>1, <3>4 DEF KissPlace
    <3>7. KissBuffer' BY <2>1, <3>2, <3>3, <3>5 DEF KissBuffer, KissTypes
    <3> QED BY <3>4, <3>5, <3>6, <3>7 DEF KissInv
  <2>3. CASE ~esc
    <3>1. buf' = <<>> /\ inFrame' /\ esc' = FALSE /\ ~spoiled'
      <4>1. ~inFrame => ~spoiled BY <1>2 DEF KissBuffer
      <4> QED BY <1>1, <1>6, <2>3, <4>1
    <3>2. CASE frames' = frames
      <4>1. KissFrames' /\ Kiss!Payload' = payload BY <1>1, <2>1, <3>2, SameFrame
      <4>2. KissTypes' BY <1>1, <1>2, <2>1, <3>1, <3>2 DEF KissTypes
      <4>3. KissPlace' BY <1>1, <1>2, <1>3, <1>4, <2>1, <4>1 DEF KissPlace
      <4>4. KissBuffer'
        <5>1. Len(buf') = 0 /\ 1 .. place'.pos - 1 = {} BY <2>0, <3>1
        <5> QED BY <2>0, <3>1, <5>1 DEF KissBuffer
      <4> QED BY <4>1, <4>2, <4>3, <4>4 DEF KissInv
    <3>3. CASE frames' # frames
      <4> DEFINE last == [payload |-> buf, of |-> place.frame, whole |-> FALSE]
      <4>1. spoiled /\ frames' = Append(frames, last)
        BY <1>1, <1>2, <1>6, <3>3 DEF KissBuffer, KissTypes
      <4>2. last \in Received BY <1>2 DEF KissTypes, Received
      <4>3. /\ frames' \in Seq(Received) /\ Len(frames) \in Nat
            /\ DOMAIN frames = 1 .. Len(frames) /\ DOMAIN frames' = 1 .. Len(frames) + 1
            /\ \A i \in DOMAIN frames : frames'[i] = frames[i]
            /\ frames'[Len(frames) + 1] = last
        BY <1>2, <4>1, <4>2, AppendOf DEF KissTypes
      <4>4. Kiss!Payload' = payload BY <1>1, <2>1 DEF Kiss!Payload
      <4>5. KissTypes' BY <1>1, <1>2, <2>1, <3>1, <4>3 DEF KissTypes
      <4>6. KissPlace' BY <1>1, <1>2, <1>3, <1>4, <2>1, <4>4 DEF KissPlace
      <4>7. KissBuffer'
        <5>1. Len(buf') = 0 /\ 1 .. place'.pos - 1 = {} BY <2>0, <3>1
        <5> QED BY <2>0, <3>1, <5>1 DEF KissBuffer
      <4>8. KissFrames'
        <5>1. \A i \in DOMAIN frames' : i \in DOMAIN frames \/ (i = Len(frames) + 1 /\ frames'[i] = last)
          BY <4>3
        <5>2. \A i \in DOMAIN frames' : frames'[i].of \in DOMAIN sent
          BY <1>2, <1>4, <4>3, <5>1 DEF KissFrames
        <5>3. \A i \in DOMAIN frames' : frames'[i].whole =>
                i \in DOMAIN frames /\ frames'[i].payload = sent[frames'[i].of] /\ frames'[i].of < place.frame
          BY <1>2, <4>3, <5>1 DEF KissFrames
        <5>4. \A i, j \in DOMAIN frames' : i < j => frames'[i].of < frames'[j].of \/ ~frames'[i].whole
          <6> SUFFICES ASSUME NEW i \in DOMAIN frames', NEW j \in DOMAIN frames', i < j, frames'[i].whole
                       PROVE  frames'[i].of < frames'[j].of
            OBVIOUS
          <6>1. CASE j \in DOMAIN frames BY <1>2, <4>3, <5>3, <6>1 DEF KissFrames
          <6>2. CASE j \notin DOMAIN frames BY <5>1, <5>3, <6>2
          <6> QED BY <6>1, <6>2
        <5>5. \A n \in DOMAIN sent : n < place.frame /\ n \notin lost => \E i \in DOMAIN frames' : frames'[i].of = n
          BY <1>2, <4>3 DEF KissFrames
        <5> QED BY <1>1, <2>1, <5>2, <5>3, <5>4, <5>5 DEF KissFrames
      <4> QED BY <4>5, <4>6, <4>7, <4>8 DEF KissInv
    <3> QED BY <3>2, <3>3
  <2> QED BY <2>2, <2>3
<1>7. CASE /\ place.pos \in 1 .. Len(payload) /\ Kiss!Escapes /\ ~place.half /\ byte = "FESC"
           /\ Kiss!NextPlace = [place EXCEPT !.half = TRUE]
  <2>1. place' = [frame |-> place.frame, pos |-> place.pos, half |-> TRUE] BY <1>1, <1>2, <1>7 DEF KissTypes
  <2>2. place.pos # 0 /\ inFrame /\ ~esc BY <1>2, <1>4, <1>7 DEF KissBuffer
  <2>3. ~ends /\ buf' = buf /\ frames' = frames /\ spoiled' = spoiled /\ inFrame' /\ esc'
    BY <1>1, <1>2, <1>7, <2>2 DEF KissTypes
  <2>4. KissFrames' /\ Kiss!Payload' = payload BY <1>1, <2>1, <2>3, SameFrame
  <2>5. KissTypes' BY <1>1, <1>2, <1>4, <2>1, <2>3 DEF KissTypes
  <2>6. Kiss!Escapes' BY <1>7, <2>1, <2>4 DEF Kiss!Escapes, Kiss!InPayload
  <2>7. KissPlace' BY <1>1, <1>2, <1>3, <1>4, <2>1, <2>2, <2>4, <2>6 DEF KissPlace
  <2>8. KissBuffer' BY <1>2, <2>1, <2>2, <2>3, <2>4, <2>5 DEF KissBuffer, KissTypes
  <2> QED BY <2>4, <2>5, <2>7, <2>8 DEF KissInv
<1>8. CASE /\ place.pos \in 1 .. Len(payload) /\ payload[place.pos] \in KissBytes
           /\ place.half => Kiss!Unescaped(byte) = payload[place.pos]
           /\ ~place.half => byte = payload[place.pos] /\ byte \notin {"FEND", "FESC"}
           /\ Kiss!NextPlace = [place EXCEPT !.pos = @ + 1, !.half = FALSE]
  <2>1. place' = [frame |-> place.frame, pos |-> place.pos + 1, half |-> FALSE] BY <1>1, <1>2, <1>8 DEF KissTypes
  <2>2. place.pos # 0 /\ inFrame /\ esc = place.half BY <1>2, <1>4, <1>8 DEF KissBuffer
  <2>3. ~ends /\ frames' = frames /\ spoiled' = spoiled /\ inFrame' /\ esc' = FALSE
        /\ buf' = Append(buf, payload[place.pos])
    <3>1. ~ends BY <1>8, <2>2
    <3>2. frames' = frames /\ inFrame' BY <1>1, <2>2, <3>1
    <3>3. spoiled' = spoiled BY <1>1, <1>2, <3>1 DEF KissTypes
    <3>4. esc' = FALSE BY <1>1, <1>8, <2>2
    <3>5. buf' = Append(buf, payload[place.pos]) BY <1>1, <1>8, <2>2, <3>1
    <3> QED BY <3>1, <3>2, <3>3, <3>4, <3>5
  <2>4. KissFrames' /\ Kiss!Payload' = payload BY <1>1, <2>1, <2>3, SameFrame
  <2>5. /\ buf' \in Seq(KissBytes) /\ Len(buf') = Len(buf) + 1 /\ Len(buf) \in Nat
        /\ DOMAIN buf = 1 .. Len(buf) /\ \A i \in DOMAIN buf : buf'[i] = buf[i]
        /\ buf'[Len(buf) + 1] = payload[place.pos]
    BY <1>2, <1>8, <2>3, AppendOf DEF KissTypes
  <2>6. buf' # <<>> BY <2>5
  <2>7. KissTypes' BY <1>1, <1>2, <1>4, <2>1, <2>3, <2>5 DEF KissTypes
  <2>8. KissPlace' BY <1>1, <1>2, <1>3, <1>4, <1>8, <2>1, <2>4 DEF KissPlace
  <2>9. KissBuffer'
    <3>1. ASSUME ~spoiled
          PROVE  Len(buf') = place.pos /\ \A i \in 1 .. place.pos : buf'[i] = payload[i]
      <4>1. Len(buf) = place.pos - 1 /\ \A i \in 1 .. place.pos - 1 : buf[i] = payload[i]
        BY <1>2, <2>2, <3>1 DEF KissBuffer
      <4>2. Len(buf) + 1 = place.pos BY <1>4, <4>1
      <4>3. \A i \in 1 .. place.pos : i \in 1 .. place.pos - 1 \/ i = place.pos BY <1>4
      <4> QED BY <2>5, <4>1, <4>2, <4>3
    <3>2. place'.pos - 1 = place.pos /\ place'.pos # 0 BY <1>4, <2>1
    <3>3. ~spoiled' => /\ Len(buf') = place'.pos - 1
                       /\ \A i \in 1 .. place'.pos - 1 : buf'[i] = Kiss!Payload'[i]
      BY <2>3, <2>4, <3>1, <3>2
    <3> QED BY <2>1, <2>3, <2>6, <3>2, <3>3 DEF KissBuffer
  <2> QED BY <2>4, <2>7, <2>8, <2>9 DEF KissInv
<1>9. CASE /\ place.pos = Len(payload) + 1 /\ ~place.half /\ byte = "FEND"
           /\ Kiss!NextPlace = [frame |-> place.frame + 1, pos |-> 0, half |-> FALSE]
  <2> DEFINE last == [payload |-> buf, of |-> place.frame, whole |-> ~spoiled]
  <2>1. place' = [frame |-> place.frame + 1, pos |-> 0, half |-> FALSE] BY <1>1, <1>9
  <2>2. place.pos # 0 /\ inFrame /\ ~esc BY <1>2, <1>4, <1>9 DEF KissBuffer
  <2>3. ~spoiled => buf = payload
    <3>1. ASSUME ~spoiled PROVE Len(buf) = Len(payload) /\ \A i \in 1 .. Len(payload) : buf[i] = payload[i]
      <4>1. place.pos - 1 = Len(payload) BY <1>4, <1>9
      <4> QED BY <1>2, <2>2, <3>1, <4>1 DEF KissBuffer
    <3>2. payload \in Seq(KissBytes) /\ buf \in Seq(KissBytes) BY <1>2, <1>5 DEF KissBytes, KissTypes
    <3> QED BY <1>4, <3>1, <3>2, SeqEqual
  <2>4. buf # <<>>
    <3>1. Len(payload) # Len(<<>>) BY <1>4
    <3> QED BY <1>2, <2>2, <2>3, <3>1 DEF KissBuffer
  <2>5. ends /\ frames' = Append(frames, last) /\ buf' = <<>> /\ spoiled' = FALSE /\ inFrame' /\ esc' = FALSE
    BY <1>1, <1>9, <2>2, <2>4
  <2>6. last \in Received BY <1>2 DEF KissTypes, Received
  <2>7. /\ frames' \in Seq(Received) /\ Len(frames) \in Nat
        /\ DOMAIN frames = 1 .. Len(frames) /\ DOMAIN frames' = 1 .. Len(frames) + 1
        /\ \A i \in DOMAIN frames : frames'[i] = frames[i]
        /\ frames'[Len(frames) + 1] = last
    BY <1>2, <2>5, <2>6, AppendOf DEF KissTypes
  <2>8. place'.frame = place.frame + 1 /\ place'.pos = 0 /\ ~place'.half BY <2>1
  <2>9. KissTypes'
    <3>1. place' \in [frame : Nat, pos : Nat, half : BOOLEAN] BY <1>2, <2>1
    <3>2. buf' \in Seq(KissBytes) BY <2>5
    <3>3. sent' \in Seq(Kiss!Payloads) BY <1>1, <1>2 DEF KissTypes
    <3>4. inFrame' \in BOOLEAN BY <1>1
    <3> QED BY <2>5, <2>7, <3>1, <3>2, <3>3, <3>4 DEF KissTypes
  <2>10. KissPlace'
    <3>1. place'.frame \in 1 .. Len(sent') + 1 BY <1>1, <1>2, <1>3, <2>8
    <3>2. place'.frame <= Len(sent') => Len(Kiss!Payload') \in Nat
      <4>1. place'.frame <= Len(sent') => place'.frame \in DOMAIN sent BY <1>1, <1>2, <2>8
      <4>2. place'.frame <= Len(sent') => Kiss!Payload' \in Kiss!Payloads
        BY <1>1, <1>2, <4>1 DEF Kiss!Payload, KissTypes
      <4> QED BY <4>2, PayloadOf
    <3> QED BY <2>8, <3>1, <3>2 DEF KissPlace
  <2>11. KissBuffer' BY <2>5, <2>8 DEF KissBuffer
  <2>12. KissFrames'
    <3>1. \A i \in DOMAIN frames' : i \in DOMAIN frames \/ (i = Len(frames) + 1 /\ frames'[i] = last)
      BY <2>7
    <3>2. \A i \in DOMAIN frames' : frames'[i].of \in DOMAIN sent
      BY <1>2, <1>4, <2>7, <3>1 DEF KissFrames
    <3>3. last.whole => last.payload = sent[last.of] BY <2>3 DEF Kiss!Payload
    <3>4. \A i \in DOMAIN frames : frames'[i].whole =>
            frames'[i].payload = sent[frames'[i].of] /\ frames'[i].of < place.frame
      BY <1>2, <2>7 DEF KissFrames
    <3>5. \A i \in DOMAIN frames' : frames'[i].whole =>
            frames'[i].payload = sent[frames'[i].of] /\ frames'[i].of < place.frame + 1
      <4> SUFFICES ASSUME NEW i \in DOMAIN frames', frames'[i].whole
                   PROVE  frames'[i].payload = sent[frames'[i].of] /\ frames'[i].of < place.frame + 1
        OBVIOUS
      <4>1. CASE i \in DOMAIN frames BY <1>2, <2>7, <3>2, <3>4, <4>1
      <4>2. CASE i \notin DOMAIN frames BY <1>2, <3>1, <3>3, <4>2
      <4> QED BY <4>1, <4>2
    <3>6. \A i, j \in DOMAIN frames' : i < j => frames'[i].of < frames'[j].of \/ ~frames'[i].whole
      <4> SUFFICES ASSUME NEW i \in DOMAIN frames', NEW j \in DOMAIN frames', i < j, frames'[i].whole
                   PROVE  frames'[i].of < frames'[j].of
        OBVIOUS
      <4>1. i \in DOMAIN frames BY <2>7
      <4>2. CASE j \in DOMAIN frames BY <1>2, <2>7, <4>1, <4>2 DEF KissFrames
      <4>3. CASE j \notin DOMAIN frames BY <3>1, <3>4, <4>1, <4>3
      <4> QED BY <4>2, <4>3
    <3>7. \A n \in DOMAIN sent : n < place.frame + 1 /\ n \notin lost => \E i \in DOMAIN frames' : frames'[i].of = n
      <4> SUFFICES ASSUME NEW n \in DOMAIN sent, n < place.frame + 1, n \notin lost
                   PROVE  \E i \in DOMAIN frames' : frames'[i].of = n
        OBVIOUS
      <4>1. CASE n < place.frame BY <1>2, <2>7, <4>1 DEF KissFrames
      <4>2. CASE n = place.frame
        <5>1. Len(frames) + 1 \in DOMAIN frames' /\ frames'[Len(frames) + 1].of = n BY <2>7, <4>2
        <5> QED BY <5>1
      <4> QED BY <1>2, <4>1, <4>2
    <3> QED BY <1>1, <2>8, <3>2, <3>5, <3>6, <3>7 DEF KissFrames
  <2> QED BY <2>9, <2>10, <2>11, <2>12 DEF KissInv
<1> QED BY <1>3, <1>6, <1>7, <1>8, <1>9, AtCursor

\* Every step of the stream keeps the invariant.
LEMMA KissStep == KissInv /\ [Kiss!Next]_kiss => KissInv'
<1> SUFFICES ASSUME KissInv, [Kiss!Next]_kiss PROVE KissInv' OBVIOUS
<1>1. ASSUME UNCHANGED <<sent, place, inFrame, esc, buf, frames, spoiled, lost>> PROVE KissInv'
  <2>1. Kiss!Payload' = Kiss!Payload BY <1>1 DEF Kiss!Payload
  <2>2. Kiss!Escapes' = Kiss!Escapes BY <1>1, <2>1 DEF Kiss!Escapes, Kiss!InPayload
  <2> QED BY <1>1, <2>1, <2>2 DEF KissInv, KissTypes, KissPlace, KissBuffer, KissFrames
<1>2. Kiss!Connect => KissInv' BY <1>1 DEF Kiss!Connect, Kiss!decoder
<1>3. UNCHANGED kiss => KissInv' BY <1>1 DEF kiss
<1> QED BY <1>2, <1>3, SendKeeps, FeedKeeps, DropKeeps, LeaveKeeps DEF Kiss!Next

--------------------------------------------------------------------------------
(* The settings file                                                        *)

FilesTypes ==
  /\ file \in Contents \cup {None, Torn} /\ loop \in Writes \cup {None} /\ writer \in Reads \cup {None}
  /\ overlap \in BOOLEAN /\ cut \in BOOLEAN /\ cookies \in [Browsers -> Keys \cup {OldKey, None}]
  /\ saved \in Contents \cup {None} /\ asking \subseteq Browsers

Pending == loop # None /\ loop.what = "settings"
Saving == Pending /\ loop.open
Migrating == writer # None /\ writer.open
Migrates(data) == ~data.marker /\ data.stale = Disk!Legacy

\* everything that is, or is to be, the content of settings.json
Copies ==
  {data \in Contents : \/ data = file
                       \/ Pending /\ data \in {loop.data, loop.more}
                       \/ writer # None /\ data = writer.data}

\* there was a key once, which somebody relies on
Keyed == writer # None \/ asking # {} \/ \E b \in Browsers : cookies[b] # None

\* As long as no write was cut off and the loop has read no empty file: a file that is empty is
\* being written, nobody else's write is on the way, no copy loses a key, and every copy has the
\* key of the sessions.
OneKey ==
  /\ file = Torn <=> Saving \/ Migrating
  /\ overlap <=> Saving /\ Migrating
  /\ Keyed => file # None /\ \A data \in Copies : data.key # None
  /\ Pending => /\ file \in Contents /\ file.key # None => loop.data.key # None
                /\ loop.more # None /\ loop.data.key # None => loop.more.key # None
  /\ \A data \in Copies : data.key = None => ~Migrates(data)
  /\ \A data, other \in Copies : data.key # None /\ other.key # None => data.key = other.key
  /\ \A data \in Copies, b \in Browsers : cookies[b] # None => data.key = cookies[b]

\* data is loaded as what was saved, but for the stale time of 120 s without the marker
AsSaved(data) ==
  /\ data.title = saved.title
  /\ \/ Disk!Migrated(data).stale = saved.stale
     \/ saved.stale = Disk!Legacy /\ ~saved.marker

\* What the operator saved is in the file, or in the write on its way, unless an operator's.
LastSaved ==
  saved # None =>
    /\ ~Migrating /\ ~overlap
    /\ file = Torn <=> Saving
    /\ file \in Contents => AsSaved(file)
    /\ Pending => /\ loop.more # None => AsSaved(loop.data)
                  /\ ~loop.operator => AsSaved(loop.data) /\ (loop.more # None => AsSaved(loop.more))
    /\ file # None

FilesInv == FilesTypes /\ (~cut => OneKey) /\ LastSaved

\* What the migration makes of a file: with the marker, another stale time, the same key.
LEMMA MigratedOf ==
  ASSUME NEW data \in Contents
  PROVE  LET new == Disk!Migrated(data)
         IN  /\ new \in Contents /\ new.key = data.key /\ new.title = data.title /\ ~Migrates(new)
             /\ (Migrates(data) => new # data /\ data.stale = Disk!Legacy /\ ~data.marker)
             /\ (~Migrates(data) => new = data)
             /\ Disk!Migrated(new) = new
<1> DEFINE new == Disk!Migrated(data)
<1>1. CASE Migrates(data)
  <2>1. new = [data EXCEPT !.stale = Disk!Default, !.marker = TRUE] BY <1>1 DEF Disk!Migrated, Migrates
  <2>2. new \in Contents /\ new.marker = TRUE /\ new.key = data.key /\ new.title = data.title
    BY <2>1 DEF Contents, Disk!Stales
  <2> HIDE DEF new
  <2>3. new # data /\ ~Migrates(new) BY <1>1, <2>2 DEF Migrates
  <2>4. Disk!Migrated(new) = new BY <2>2 DEF Disk!Migrated
  <2> QED BY <1>1, <2>2, <2>3, <2>4 DEF new, Migrates
<1>2. CASE ~Migrates(data)
  <2>1. new = data BY <1>2 DEF Disk!Migrated, Migrates
  <2> QED BY <1>2, <2>1
<1> QED BY <1>1, <1>2

\* What load_settings_file makes of the file on disk.
LEMMA LoadOf ==
  ASSUME FilesTypes
  PROVE  /\ Disk!Whole(file) <=> file \in Contents
         /\ Disk!Load \in Contents /\ ~Migrates(Disk!Load)
         /\ file \in Contents => Disk!Load = Disk!Migrated(file) /\ Disk!Load.key = file.key
         /\ file \notin Contents => Disk!Load.key = None
         /\ Disk!LoadWrites <=> file = None \/ (file \in Contents /\ Migrates(file))
         /\ AsSaved(file) /\ file \in Contents => AsSaved(Disk!Load)
<1>1. Disk!Whole(file) <=> file \in Contents BY FileAssumption DEF FilesTypes, Disk!Whole
<1>2. Disk!Defaults \in Contents /\ Disk!Defaults.key = None /\ ~Migrates(Disk!Defaults)
  BY DEF Disk!Defaults, Contents, Disk!Stales, Disk!Default, Disk!Legacy, Migrates
<1>3. CASE file \in Contents
  <2>1. Disk!Load = Disk!Migrated(file) BY <1>1, <1>3 DEF Disk!Load
  <2>2. file # None BY <1>3, FileAssumption
  <2>3. Disk!LoadWrites <=> Migrates(file) BY <1>1, <1>3, <2>2, MigratedOf DEF Disk!LoadWrites
  <2>4. Disk!Load \in Contents /\ ~Migrates(Disk!Load) /\ Disk!Load.key = file.key
        /\ Disk!Load.title = file.title /\ Disk!Migrated(Disk!Load) = Disk!Load
    BY <1>3, <2>1, MigratedOf
  <2>5. AsSaved(file) => AsSaved(Disk!Load) BY <2>1, <2>4 DEF AsSaved
  <2> QED BY <1>1, <1>3, <2>1, <2>2, <2>3, <2>4, <2>5
<1>4. CASE file \notin Contents
  <2>1. ~Disk!Whole(file) BY <1>1, <1>4
  <2>2. Disk!Load = Disk!Defaults BY <2>1 DEF Disk!Load
  <2>3. Disk!LoadWrites <=> file = None BY <2>1 DEF Disk!LoadWrites
  <2> QED BY <1>1, <1>2, <1>4, <2>2, <2>3
<1> QED BY <1>3, <1>4

\* An installation starts without a file or with one of before the migration.
LEMMA FilesInit == Disk!Init => FilesInv
<1> SUFFICES ASSUME Disk!Init PROVE FilesInv OBVIOUS
<1> USE FileAssumption
<1>1. file = None \/ (file \in Contents /\ file.key = OldKey)
  BY DEF Disk!Init, Disk!Defaults, Contents, Disk!Stales, Disk!Legacy, Disk!Default
<1>2. loop = None /\ asking = {} /\ writer = None /\ overlap = FALSE /\ cookies = [b \in Browsers |-> None]
      /\ cut = FALSE /\ saved = None
  BY DEF Disk!Init
<1>3. FilesTypes BY <1>1, <1>2 DEF FilesTypes
<1>4. OneKey
  <2>1. file # Torn /\ ~Pending /\ ~Saving /\ ~Migrating /\ ~Keyed BY <1>1, <1>2 DEF Pending, Saving, Migrating, Keyed
  <2>2. \A data \in Copies : data = file /\ data.key = OldKey BY <1>1, <1>2, <2>1 DEF Copies
  <2> QED BY <1>2, <2>1, <2>2 DEF OneKey
<1> QED BY <1>2, <1>3, <1>4 DEF FilesInv, LastSaved

\* The copies of the settings give the promise of the sessions, the file that of the operator.
LEMMA FilesImply == FilesInv => Disk!SessionsLast /\ Disk!SavedIsLoaded
<1> SUFFICES ASSUME FilesInv PROVE Disk!SessionsLast /\ Disk!SavedIsLoaded OBVIOUS
<1>0. FilesTypes BY DEF FilesInv
<1>1. Disk!SessionsLast
  <2> SUFFICES ASSUME ~cut, Disk!Whole(file), NEW b \in Browsers, cookies[b] # None
               PROVE  file.key = cookies[b]
    BY DEF Disk!SessionsLast
  <2>1. file \in Copies BY <1>0, LoadOf DEF Copies
  <2> QED BY <2>1 DEF FilesInv, OneKey
<1>2. Disk!SavedIsLoaded
  <2> SUFFICES ASSUME saved # None, Disk!Whole(file)
               PROVE  /\ Disk!Load.title = saved.title
                      /\ Disk!Load.stale = saved.stale \/ (saved.stale = Disk!Legacy /\ ~saved.marker)
    BY DEF Disk!SavedIsLoaded
  <2>1. file \in Contents /\ AsSaved(file) /\ Disk!Load = Disk!Migrated(file)
    BY <1>0, LoadOf DEF FilesInv, LastSaved
  <2>2. Disk!Load.title = file.title BY <2>1, MigratedOf
  <2> QED BY <2>1, <2>2 DEF AsSaved
<1> QED BY <1>1, <1>2

\* A handler of the event loop has read the settings and is to write them.
LEMMA BeginKeeps ==
  ASSUME FilesInv, NEW last \in Contents \cup {None}, NEW operator \in BOOLEAN, NEW browser \in Browsers \cup {None},
         Disk!Begin(last, operator, browser), UNCHANGED <<file, writer, overlap, cookies, saved>>,
         asking' \subseteq Browsers, asking' # {} => Keyed,
         ~cut /\ file # Torn /\ last # None =>
           /\ last.key = None => ~Migrates(last)
           /\ Disk!Load.key # None => last.key = Disk!Load.key,
         saved # None /\ last # None /\ ~operator => AsSaved(last)
  PROVE  FilesInv'
<1> USE FileAssumption
<1> DEFINE read == Disk!Load
           data == IF Disk!LoadWrites THEN read ELSE last
           more == IF Disk!LoadWrites THEN last ELSE None
<1>0. /\ FilesTypes /\ loop = None /\ (Disk!LoadWrites \/ last # None)
      /\ loop' = [what |-> "settings", data |-> data, more |-> more, operator |-> operator, browser |-> browser,
                  open |-> FALSE]
      /\ cut' = (cut \/ file = Torn)
  BY DEF FilesInv, Disk!Begin
<1>1. /\ read \in Contents /\ ~Migrates(read) /\ (file \in Contents => read.key = file.key)
      /\ (file \notin Contents => read.key = None) /\ (AsSaved(file) /\ file \in Contents => AsSaved(read))
  BY <1>0, LoadOf
<1> HIDE DEF read
<1>2. data \in Contents /\ more \in Contents \cup {None} /\ data \in {read, last} /\ more \in {None, last}
      /\ (more # None => data = read)
  BY <1>0, <1>1
<1> HIDE DEF data, more
<1>3. loop' \in Writes /\ loop' # None
  <2>1. loop' \in [what : {"settings"}, data : Contents, more : Contents \cup {None}, operator : BOOLEAN,
                   browser : Browsers \cup {None}, open : BOOLEAN]
    BY <1>0, <1>2
  <2> QED BY <2>1 DEF Writes
<1>4. /\ loop'.what = "settings" /\ loop'.data = data /\ loop'.more = more /\ loop'.operator = operator /\ ~loop'.open
  BY <1>0
<1>5. FilesTypes' BY <1>0, <1>3 DEF FilesTypes
<1>6. Pending' /\ ~Saving /\ ~Saving' /\ (Migrating' <=> Migrating) BY <1>0, <1>3, <1>4 DEF Pending, Saving, Migrating
<1>7. ASSUME ~cut' PROVE OneKey'
  <2>1. OneKey /\ ~cut /\ file # Torn BY <1>0, <1>7 DEF FilesInv
  <2>2. ~Migrating /\ ~overlap BY <1>6, <2>1 DEF OneKey
  <2>3. file \in Contents => file \in Copies BY DEF Copies
  <2>4. writer # None => writer.data \in Copies BY <1>0 DEF Copies, FilesTypes, Reads
  <2>5. \A copy \in Copies' : \/ copy = file /\ file \in Contents
                              \/ writer # None /\ copy = writer.data
                              \/ copy \in {data, more} /\ copy # None
    BY <1>4 DEF Copies
  <2>6. read # None BY <1>1
  <2>7. \A copy \in Copies' : copy \in Copies \/ copy = read \/ (copy = last /\ last # None)
    BY <1>2, <2>3, <2>4, <2>5
  <2>8. Keyed => file \in Contents /\ file.key # None /\ read.key # None BY <1>0, <1>1, <2>1, <2>3 DEF OneKey, FilesTypes
  <2>9. last # None => (last.key = None => ~Migrates(last)) /\ (read.key # None => last.key = read.key)
    BY <2>1 DEF read
  <2>10. Keyed' => Keyed BY <1>0 DEF Keyed
  <2>11. \A copy \in Copies' : copy.key = None => ~Migrates(copy) BY <1>1, <2>1, <2>7, <2>9 DEF OneKey
  <2>12. \A copy \in Copies' : Keyed => copy.key # None BY <2>1, <2>7, <2>8, <2>9 DEF OneKey
  <2>13. \A copy \in Copies' : read.key # None => copy.key \in {None, read.key}
    <3>1. read.key # None => file \in Contents /\ file.key = read.key BY <1>1
    <3> QED BY <2>1, <2>3, <2>7, <2>9, <3>1 DEF OneKey
  <2>14. ASSUME read.key = None PROVE \A copy \in Copies' : copy.key = None \/ copy = last
    <3>1. ~Keyed BY <2>8, <2>14
    <3>2. writer = None BY <3>1 DEF Keyed
    <3>3. file \in Contents => file.key = None BY <1>1, <2>14
    <3> QED BY <1>2, <2>5, <2>14, <3>2, <3>3
  <2>15. \A copy, other \in Copies' : copy.key # None /\ other.key # None => copy.key = other.key
    BY <2>13, <2>14
  <2>16. \A copy \in Copies', b \in Browsers : cookies[b] # None => copy.key = cookies[b]
    <3> SUFFICES ASSUME NEW copy \in Copies', NEW b \in Browsers, cookies[b] # None PROVE copy.key = cookies[b] OBVIOUS
    <3>1. Keyed BY DEF Keyed
    <3>2. read.key = cookies[b] BY <1>1, <2>1, <2>3, <2>8, <3>1 DEF OneKey
    <3> QED BY <2>12, <2>13, <3>1, <3>2
  <2>17. /\ file \in Contents /\ file.key # None => data.key # None
         /\ more # None /\ data.key # None => more.key # None
    BY <1>1, <1>2, <2>6, <2>9
  <2>18. (Keyed => file # None) BY <2>1 DEF OneKey
  <2>19. (file' = Torn <=> Saving' \/ Migrating') /\ (overlap' <=> Saving' /\ Migrating') BY <1>6, <2>1, <2>2
  <2>20. Keyed' => file' # None /\ \A copy \in Copies' : copy.key # None BY <2>10, <2>12, <2>18
  <2>21. Pending' => /\ file' \in Contents /\ file'.key # None => loop'.data.key # None
                     /\ loop'.more # None /\ loop'.data.key # None => loop'.more.key # None
    BY <1>4, <2>17
  <2> QED BY <2>11, <2>15, <2>16, <2>19, <2>20, <2>21 DEF OneKey, Migrates
<1>8. LastSaved'
  <2>0. saved' = saved OBVIOUS
  <2> SUFFICES ASSUME saved # None PROVE LastSaved' BY <2>0 DEF LastSaved
  <2>1. ~Migrating /\ ~overlap /\ file # Torn /\ file # None /\ (file \in Contents => AsSaved(file))
    BY <1>6 DEF FilesInv, LastSaved
  <2>2. AsSaved(read) BY <1>0, <1>1, <2>1 DEF FilesTypes
  <2>3. ~operator => AsSaved(data) /\ (more # None => AsSaved(more)) BY <1>1, <1>2, <2>2
  <2>4. more # None => AsSaved(data) BY <1>2, <2>2
  <2>5. (file \in Contents => AsSaved(file))' BY <2>0, <2>1 DEF AsSaved
  <2>6. (~operator => AsSaved(loop.data)') /\ (~operator /\ more # None => AsSaved(loop.more)')
        /\ (more # None => AsSaved(loop.data)')
    BY <1>4, <2>0, <2>3, <2>4 DEF AsSaved
  <2> QED BY <1>4, <1>6, <2>1, <2>5, <2>6 DEF LastSaved
<1> QED BY <1>5, <1>7, <1>8 DEF FilesInv

\* A write of the settings ends, of the event loop or of the thread: theirs is the content now.
LEMMA EndKeeps ==
  ASSUME FilesInv, Disk!EndSettings PROVE FilesInv'
<1> USE FileAssumption
<1>1. /\ loop # None /\ loop.what = "settings" /\ loop.open
      /\ file' \in Disk!Written(loop.data) /\ overlap' = (overlap /\ Migrating)
      /\ cut' = (cut \/ overlap) /\ UNCHANGED <<asking, writer>>
  BY DEF Disk!EndSettings, Disk!LoopOpen, Disk!ThreadOpen, Migrating
<1>2. \/ /\ loop.more # None /\ loop' = [loop EXCEPT !.data = loop.more, !.more = None, !.open = FALSE]
         /\ UNCHANGED <<cookies, saved>>
      \/ /\ loop.more = None
         /\ saved' = IF loop.operator THEN (IF writer = None /\ ~overlap THEN loop.data ELSE None) ELSE saved
         /\ cookies' = IF loop.browser = None THEN cookies ELSE [cookies EXCEPT ![loop.browser] = loop.data.key]
         /\ loop' = None \/ \E password \in Passwords : loop' = [what |-> "auth", data |-> password]
  BY DEF Disk!EndSettings, Disk!BeginAuth
<1>3. /\ FilesTypes /\ loop \in Writes /\ loop.data \in Contents /\ loop.more \in Contents \cup {None}
      /\ loop.operator \in BOOLEAN /\ loop.browser \in Browsers \cup {None}
  BY <1>1 DEF FilesInv, FilesTypes, Writes
<1>4. file' \in {loop.data, Torn} /\ (~overlap => file' = loop.data) BY <1>1 DEF Disk!Written
<1>5. Pending /\ Saving /\ (Migrating' <=> Migrating) BY <1>1 DEF Pending, Saving, Migrating
<1>6. loop.more # None =>
        /\ loop' \in Writes /\ loop' # None /\ loop'.what = "settings" /\ loop'.data = loop.more /\ loop'.more = None
        /\ ~loop'.open /\ loop'.operator = loop.operator
  <2> SUFFICES ASSUME loop.more # None
               PROVE  /\ loop' \in Writes /\ loop' # None /\ loop'.what = "settings" /\ loop'.data = loop.more
                      /\ loop'.more = None /\ ~loop'.open /\ loop'.operator = loop.operator
    OBVIOUS
  <2> DEFINE Settings == [what : {"settings"}, data : Contents, more : Contents \cup {None}, operator : BOOLEAN,
                          browser : Browsers \cup {None}, open : BOOLEAN]
  <2>1. loop \in Settings
    <3>1. \A w \in [what : {"auth"}, data : Passwords] : w.what = "auth" OBVIOUS
    <3> QED BY <1>1, <1>3, <3>1 DEF Writes
  <2>2. loop' = [loop EXCEPT !.data = loop.more, !.more = None, !.open = FALSE] /\ loop.more \in Contents BY <1>2, <1>3
  <2>3. PICK w \in Settings, m \in Contents : w = loop /\ m = loop.more BY <2>1, <2>2
  <2>4. LET new == [w EXCEPT !.data = m, !.more = None, !.open = FALSE]
        IN  /\ new \in Settings /\ new.what = "settings" /\ new.data = m /\ new.more = None /\ new.open = FALSE
            /\ new.operator = w.operator
    OBVIOUS
  <2>5. \A new \in Settings : new \in Writes /\ new # None BY DEF Writes
  <2> HIDE DEF Settings
  <2> QED BY <2>2, <2>3, <2>4, <2>5
<1>7. loop.more = None => loop' \in Writes \cup {None} /\ ~Pending'
  BY <1>2, <1>3 DEF Writes, Pending
<1>8. ~Saving' BY <1>6, <1>7 DEF Saving
<1>9. cookies' \in [Browsers -> Keys \cup {OldKey, None}]
  <2>1. loop.data.key \in Keys \cup {OldKey, None} BY <1>3 DEF Contents
  <2> QED BY <1>2, <1>3, <2>1 DEF FilesTypes
<1>10. FilesTypes' BY <1>1, <1>2, <1>3, <1>4, <1>6, <1>7, <1>9 DEF FilesTypes
<1>11. ASSUME ~cut' PROVE OneKey'
  <2>1. OneKey /\ ~overlap /\ ~cut BY <1>1, <1>3, <1>11 DEF FilesInv, FilesTypes
  <2>2. ~Migrating /\ file' = loop.data /\ file' # Torn /\ file' # None BY <1>3, <1>4, <1>5, <2>1 DEF OneKey
  <2>3. Copies' \subseteq Copies
    <3>1. \A data \in Copies' : \/ data = file'
                                \/ loop.more # None /\ data = loop.more
                                \/ writer # None /\ data = writer.data
      BY <1>1, <1>6, <1>7 DEF Copies
    <3> QED BY <1>5, <2>2, <3>1 DEF Copies
  <2>4. loop.data \in Copies BY <1>3, <1>5 DEF Copies
  <2>5. \A b \in Browsers : cookies'[b] \in {None, cookies[b], loop.data.key}
    BY <1>2, <1>3 DEF FilesTypes
  <2>6. ASSUME NEW b \in Browsers, cookies'[b] # None, cookies'[b] # cookies[b]
        PROVE  \A data \in Copies' : data.key = cookies'[b]
    <3>1. cookies'[b] = loop.data.key /\ loop.data.key # None /\ loop.more = None BY <1>2, <2>5, <2>6
    <3>2. \A data \in Copies' : data = loop.data \/ (writer # None /\ data = writer.data /\ data \in Copies)
      BY <1>1, <1>7, <2>2, <2>3, <3>1 DEF Copies
    <3>3. writer # None => Keyed BY DEF Keyed
    <3> QED BY <2>1, <2>4, <3>1, <3>2, <3>3 DEF OneKey
  <2>7. \A data \in Copies', b \in Browsers : cookies'[b] # None => data.key = cookies'[b]
    BY <2>1, <2>3, <2>6 DEF OneKey
  <2>8. Keyed' => \A data \in Copies' : data.key # None
    <3> SUFFICES ASSUME Keyed', NEW data \in Copies' PROVE data.key # None OBVIOUS
    <3>1. CASE Keyed BY <2>1, <2>3, <3>1 DEF OneKey
    <3>2. CASE ~Keyed
      <4>1. PICK b \in Browsers : cookies'[b] # None BY <1>1, <3>2 DEF Keyed
      <4> QED BY <2>7, <4>1
    <3> QED BY <3>1, <3>2
  <2>9. Pending' => loop.more # None BY <1>7
  <2>10. Pending' => /\ file' \in Contents /\ file'.key # None => loop'.data.key # None
                     /\ loop'.more # None /\ loop'.data.key # None => loop'.more.key # None
    BY <1>5, <1>6, <2>1, <2>2, <2>9 DEF OneKey
  <2>11. (file' = Torn <=> Saving' \/ Migrating') /\ (overlap' <=> Saving' /\ Migrating') /\ (Keyed' => file' # None)
    BY <1>1, <1>5, <1>8, <2>1, <2>2
  <2>12. /\ \A data \in Copies' : data.key = None => ~Migrates(data)
         /\ \A data, other \in Copies' : data.key # None /\ other.key # None => data.key = other.key
    BY <2>1, <2>3 DEF OneKey
  <2> QED BY <2>7, <2>8, <2>10, <2>11, <2>12 DEF OneKey, Migrates
<1>12. LastSaved'
  <2> SUFFICES ASSUME saved' # None PROVE LastSaved' BY DEF LastSaved
  <2>1. CASE loop.more = None /\ loop.operator
    <3>1. writer = None /\ ~overlap /\ saved' = loop.data BY <1>2, <2>1
    <3>2. file' = saved' /\ file' \in Contents BY <1>3, <1>4, <3>1
    <3>3. AsSaved(file)' BY <3>2, MigratedOf DEF AsSaved
    <3>4. ~Migrating BY <3>1 DEF Migrating
    <3> QED BY <1>1, <1>5, <1>7, <1>8, <2>1, <3>1, <3>2, <3>3, <3>4 DEF LastSaved
  <2>2. CASE ~(loop.more = None /\ loop.operator)
    <3>1. saved' = saved /\ saved # None BY <1>2, <2>2
    <3>2. ~Migrating /\ ~overlap /\ AsSaved(loop.data) BY <1>3, <1>5, <2>2, <3>1 DEF FilesInv, LastSaved
    <3>3. file' = loop.data /\ file' \in Contents BY <1>3, <1>4, <3>2
    <3>4. AsSaved(file)' BY <3>1, <3>2, <3>3 DEF AsSaved
    <3>5. Pending' => loop.more # None BY <1>7
    <3>6. Pending' /\ ~loop.operator => AsSaved(loop.data)'
      <4>1. Pending' /\ ~loop.operator => AsSaved(loop.more) BY <1>5, <3>1, <3>5 DEF FilesInv, LastSaved
      <4> QED BY <1>6, <3>1, <3>5, <4>1 DEF AsSaved
    <3> QED BY <1>1, <1>5, <1>6, <1>8, <3>2, <3>3, <3>4, <3>5, <3>6 DEF LastSaved
  <2> QED BY <2>1, <2>2
<1> QED BY <1>10, <1>11, <1>12 DEF FilesInv

\* A write of the event loop empties the file.
LEMMA OpenKeeps ==
  ASSUME FilesInv, Disk!OpenSettings PROVE FilesInv'
<1> USE FileAssumption
<1>1. /\ loop # None /\ loop.what = "settings" /\ ~loop.open /\ loop' = [loop EXCEPT !.open = TRUE] /\ file' = Torn
      /\ overlap' = (overlap \/ Migrating) /\ UNCHANGED <<asking, writer, cookies, cut, saved>>
  BY DEF Disk!OpenSettings, Disk!ThreadOpen, Disk!history, Migrating
<1>2. /\ FilesTypes /\ loop' \in Writes /\ loop' # None /\ loop'.what = "settings" /\ loop'.data = loop.data
      /\ loop'.more = loop.more /\ loop'.operator = loop.operator /\ loop'.open
  <2> DEFINE Settings == [what : {"settings"}, data : Contents, more : Contents \cup {None}, operator : BOOLEAN,
                          browser : Browsers \cup {None}, open : BOOLEAN]
  <2>1. loop \in Settings
    <3>1. \A w \in [what : {"auth"}, data : Passwords] : w.what = "auth" OBVIOUS
    <3> QED BY <1>1, <3>1 DEF Writes, FilesInv, FilesTypes
  <2>2. \A w \in Settings : LET new == [w EXCEPT !.open = TRUE]
                            IN  /\ new \in Settings /\ new.what = "settings" /\ new.data = w.data /\ new.more = w.more
                                /\ new.operator = w.operator /\ new.open = TRUE
    OBVIOUS
  <2>3. \A new \in Settings : new \in Writes /\ new # None BY DEF Writes
  <2> HIDE DEF Settings
  <2> QED BY <1>1, <2>1, <2>2, <2>3 DEF FilesInv
<1>3. FilesTypes' /\ file' \notin Contents BY <1>1, <1>2 DEF FilesTypes
<1>4. Pending /\ Pending' /\ ~Saving /\ Saving' /\ (Migrating' <=> Migrating) BY <1>1, <1>2 DEF Pending, Saving, Migrating
<1>5. ASSUME ~cut' PROVE OneKey'
  <2>1. OneKey BY <1>1, <1>5 DEF FilesInv
  <2>2. Copies' \subseteq Copies /\ (Keyed' <=> Keyed) BY <1>1, <1>2, <1>3, <1>4 DEF Copies, Keyed
  <2>3. loop.more # None /\ loop.data.key # None => loop.more.key # None BY <1>4, <2>1 DEF OneKey
  <2> QED BY <1>1, <1>2, <1>3, <1>4, <2>1, <2>2, <2>3 DEF OneKey, Migrates
<1>6. LastSaved'
  <2> SUFFICES ASSUME saved # None PROVE LastSaved' BY <1>1 DEF LastSaved
  <2>1. /\ ~Migrating /\ ~overlap
        /\ loop.more # None => AsSaved(loop.data)
        /\ ~loop.operator => AsSaved(loop.data) /\ (loop.more # None => AsSaved(loop.more))
    BY <1>4 DEF FilesInv, LastSaved
  <2>2. /\ loop.more # None => AsSaved(loop.data)'
        /\ ~loop.operator => AsSaved(loop.data)' /\ (loop.more # None => AsSaved(loop.more)')
    BY <1>1, <1>2, <2>1 DEF AsSaved
  <2> QED BY <1>1, <1>2, <1>3, <1>4, <2>1, <2>2 DEF LastSaved
<1> QED BY <1>3, <1>5, <1>6 DEF FilesInv

\* A thread of the pool that loads the settings and writes the migrated ones keeps the invariant.
LEMMA ThreadKeeps ==
  ASSUME FilesInv, Disk!ThreadLoads \/ Disk!ThreadOpens \/ Disk!ThreadWrites PROVE FilesInv'
<1> USE FileAssumption
<1>0. FilesTypes BY DEF FilesInv
<1>1. CASE Disk!ThreadLoads
  <2>1. /\ writer = None /\ file # None /\ Disk!LoadWrites /\ writer' = [data |-> Disk!Load, open |-> FALSE]
        /\ UNCHANGED <<file, loop, asking, overlap, cookies, cut, saved>>
    BY <1>1 DEF Disk!ThreadLoads, Disk!history
  <2>2. file \in Contents /\ Migrates(file) /\ Disk!Load.key = file.key /\ Disk!Load \in Contents
        /\ ~Migrates(Disk!Load)
    BY <1>0, <2>1, LoadOf
  <2>3. writer' \in Reads /\ writer' # None /\ writer'.data = Disk!Load /\ ~writer'.open
    <3>1. writer' \in Reads BY <2>1, <2>2 DEF Reads
    <3>2. writer'.data = Disk!Load /\ writer'.open = FALSE BY <2>1
    <3> QED BY <3>1, <3>2
  <2>4. ~Migrating /\ ~Migrating' /\ (Pending' <=> Pending) /\ (Saving' <=> Saving)
    BY <2>1, <2>3 DEF Migrating, Pending, Saving
  <2>5. FilesTypes' BY <1>0, <2>1, <2>3 DEF FilesTypes
  <2>6. ASSUME ~cut' PROVE OneKey'
    <3>1. OneKey BY <2>1, <2>6 DEF FilesInv
    <3>2. file \in Copies BY <2>2 DEF Copies
    <3>3. \A copy \in Copies' : \/ copy = Disk!Load \/ copy = file
                                \/ copy \in Copies /\ Pending /\ copy \in {loop.data, loop.more}
      BY <2>1, <2>3, <2>4 DEF Copies
    <3>4. file.key # None BY <2>2, <3>1, <3>2 DEF OneKey
    <3>5. loop \in Writes \cup {None} /\ (Pending => loop.data \in Contents /\ loop.more \in Contents \cup {None})
      BY <1>0 DEF FilesTypes, Pending, Writes
    <3>6. Pending => loop.data.key # None /\ (loop.more # None => loop.more.key # None) BY <2>2, <3>1, <3>4 DEF OneKey
    <3>7. \A copy \in Copies' : copy.key = file.key
      <4>1. ASSUME NEW copy \in Copies, Pending, copy \in {loop.data, loop.more} PROVE copy.key = file.key
        <5>1. copy # None BY <4>1 DEF Copies
        <5>2. copy.key # None BY <3>6, <4>1, <5>1
        <5> QED BY <3>1, <3>2, <3>4, <4>1, <5>2 DEF OneKey
      <4> QED BY <2>2, <3>3, <4>1
    <3>8. \A b \in Browsers : cookies[b] # None => file.key = cookies[b] BY <3>1, <3>2 DEF OneKey
    <3>9. (file' = Torn <=> Saving' \/ Migrating') /\ (overlap' <=> Saving' /\ Migrating') BY <2>1, <2>4, <3>1 DEF OneKey
    <3>10. Pending' => /\ file' \in Contents /\ file'.key # None => loop'.data.key # None
                       /\ loop'.more # None /\ loop'.data.key # None => loop'.more.key # None
      BY <2>1, <2>4, <3>6
    <3>11. /\ \A copy \in Copies' : copy.key # None
           /\ \A copy, other \in Copies' : copy.key = other.key
           /\ \A copy \in Copies', b \in Browsers : cookies'[b] # None => copy.key = cookies'[b]
      BY <2>1, <3>4, <3>7, <3>8
    <3> QED BY <2>1, <3>9, <3>10, <3>11 DEF OneKey
  <2>7. LastSaved' BY <2>1, <2>4 DEF FilesInv, LastSaved, AsSaved
  <2> QED BY <2>5, <2>6, <2>7 DEF FilesInv
<1>2. CASE Disk!ThreadOpens
  <2>1. /\ writer # None /\ ~writer.open /\ writer' = [writer EXCEPT !.open = TRUE] /\ file' = Torn
        /\ overlap' = (overlap \/ Saving)
        /\ saved' = None /\ UNCHANGED <<loop, asking, cookies, cut>>
    BY <1>2 DEF Disk!ThreadOpens, Disk!LoopOpen, Saving, Pending
  <2>2. writer' \in Reads /\ writer' # None /\ writer'.data = writer.data /\ writer'.open
    BY <1>0, <2>1 DEF FilesTypes, Reads
  <2>3. ~Migrating /\ Migrating' /\ (Saving' <=> Saving) /\ (Pending' <=> Pending) /\ file' \notin Contents
    BY <2>1, <2>2 DEF Migrating, Saving, Pending
  <2>4. FilesTypes' BY <1>0, <2>1, <2>2 DEF FilesTypes
  <2>5. ASSUME ~cut' PROVE OneKey'
    <3>1. OneKey BY <2>1, <2>5 DEF FilesInv
    <3>2. Copies' \subseteq Copies /\ Keyed BY <2>1, <2>2, <2>3 DEF Copies, Keyed
    <3>3. Pending => (loop.more # None /\ loop.data.key # None => loop.more.key # None) BY <3>1 DEF OneKey
    <3> QED BY <2>1, <2>2, <2>3, <3>1, <3>2, <3>3 DEF OneKey, Migrates
  <2>6. LastSaved' BY <2>1 DEF LastSaved
  <2> QED BY <2>4, <2>5, <2>6 DEF FilesInv
<1>3. CASE Disk!ThreadWrites
  <2>1. /\ writer # None /\ writer.open /\ writer' = None
        /\ file' \in Disk!Written(writer.data) /\ overlap' = (overlap /\ Saving)
        /\ cut' = (cut \/ overlap) /\ UNCHANGED <<loop, asking, cookies, saved>>
    BY <1>3 DEF Disk!ThreadWrites, Disk!ThreadOpen, Disk!LoopOpen, Saving, Pending
  <2>2. writer.data \in Contents BY <1>0, <2>1 DEF FilesTypes, Reads
  <2>3. file' \in {writer.data, Torn} /\ (~overlap => file' = writer.data) BY <2>1 DEF Disk!Written
  <2>4. Migrating /\ ~Migrating' /\ (Saving' <=> Saving) /\ (Pending' <=> Pending)
    BY <2>1 DEF Migrating, Saving, Pending
  <2>5. FilesTypes' BY <1>0, <2>1, <2>2, <2>3 DEF FilesTypes
  <2>6. ASSUME ~cut' PROVE OneKey'
    <3>1. OneKey /\ ~overlap /\ Keyed BY <1>0, <2>1, <2>6 DEF FilesInv, FilesTypes, Keyed
    <3>2. ~Saving /\ file' = writer.data BY <2>3, <2>4, <3>1 DEF OneKey
    <3>3. Copies' \subseteq Copies BY <2>1, <2>4, <3>2 DEF Copies
    <3>4. Pending => loop.data \in Contents /\ loop.more \in Contents \cup {None} /\ loop.data \in Copies
      BY <1>0 DEF FilesTypes, Pending, Writes, Copies
    <3>5. Pending => loop.data.key # None /\ (loop.more # None => loop.more.key # None)
      BY <3>1, <3>4 DEF OneKey
    <3> QED BY <2>1, <2>2, <2>4, <3>1, <3>2, <3>3, <3>5 DEF OneKey, Migrates
  <2>7. LastSaved' BY <2>1, <2>4 DEF FilesInv, LastSaved
  <2> QED BY <2>5, <2>6, <2>7 DEF FilesInv
<1> QED BY <1>1, <1>2, <1>3

\* A step of the event loop, of the thread, of a browser and a crash keep the invariant.
LEMMA FilesStep == FilesInv /\ [Disk!Next]_disk => FilesInv'
<1> SUFFICES ASSUME FilesInv, [Disk!Next]_disk PROVE FilesInv' OBVIOUS
<1> USE FileAssumption
<1>0. FilesTypes BY DEF FilesInv
<1>1. CASE Disk!LoopLoads
  <2>1. Disk!Begin(None, FALSE, None) /\ UNCHANGED <<file, asking, writer, overlap, cookies, saved>>
    BY <1>1 DEF Disk!LoopLoads
  <2>2. asking' \subseteq Browsers /\ (asking' # {} => Keyed) BY <1>0, <2>1 DEF FilesTypes, Keyed
  <2> QED BY <2>1, <2>2, BeginKeeps
<1>2. ASSUME NEW browser \in Browsers \cup {None}, Disk!MakeKey(browser) PROVE FilesInv'
  <2>1. /\ Disk!Load.key = None
        /\ UNCHANGED <<file, asking, writer, overlap, cookies, saved>>
    BY <1>2 DEF Disk!MakeKey
  <2>2. PICK new \in Keys : Disk!Begin([Disk!Load EXCEPT !.key = new], FALSE, browser)
    BY <1>2 DEF Disk!MakeKey
  <2> DEFINE last == [Disk!Load EXCEPT !.key = new]
  <2>3. /\ Disk!Load \in Contents /\ ~Migrates(Disk!Load)
        /\ file \in Contents => (AsSaved(file) => AsSaved(Disk!Load))
    BY <1>0, <2>1, LoadOf DEF FilesTypes
  <2>4. last \in Contents /\ last.stale = Disk!Load.stale /\ last.title = Disk!Load.title
        /\ last.marker = Disk!Load.marker
    BY <2>3 DEF Contents
  <2>5. Disk!Begin(last, FALSE, browser) /\ loop = None BY <2>2 DEF Disk!Begin
  <2> HIDE DEF last
  <2>6. ~Migrates(last) BY <2>3, <2>4 DEF Migrates
  <2>7. asking' \subseteq Browsers /\ (asking' # {} => Keyed) BY <1>0, <2>1 DEF FilesTypes, Keyed
  <2>8. saved # None => AsSaved(last)
    <3> SUFFICES ASSUME saved # None PROVE AsSaved(last) OBVIOUS
    <3>1. ~Saving BY <2>5 DEF Saving, Pending
    <3>2. AsSaved(Disk!Load) BY <1>0, <2>3, <3>1 DEF FilesInv, FilesTypes, LastSaved
    <3>3. Disk!Migrated(last).stale = Disk!Migrated(Disk!Load).stale
      BY <2>3, <2>4, <2>6, MigratedOf
    <3> QED BY <2>4, <3>2, <3>3 DEF AsSaved
  <2> QED BY <2>1, <2>4, <2>5, <2>6, <2>7, <2>8, BeginKeeps
<1>3. ASSUME NEW b \in Browsers, Disk!Save(b) PROVE FilesInv'
  <2>1. b \in asking /\ asking' = asking \ {b} /\ UNCHANGED <<file, writer, overlap, cookies, saved>>
    BY <1>3 DEF Disk!Save
  <2>2. PICK stale \in Disk!Stales, title \in {"RadioTAK", "County"} :
          Disk!Begin([Disk!Load EXCEPT !.stale = stale, !.title = title], TRUE, None)
    BY <1>3 DEF Disk!Save
  <2> DEFINE last == [Disk!Load EXCEPT !.stale = stale, !.title = title]
  <2>3. Disk!Load \in Contents /\ (file \in Contents => Disk!Load.key = file.key) BY <1>0, LoadOf
  <2>4. last \in Contents /\ last.key = Disk!Load.key BY <2>3 DEF Contents
  <2>5. Disk!Begin(last, TRUE, None) BY <2>2
  <2> HIDE DEF last
  <2>6. Keyed /\ asking' \subseteq Browsers BY <1>0, <2>1 DEF Keyed, FilesTypes
  <2>7. ASSUME ~cut, file # Torn PROVE last.key # None
    <3>1. file \in Contents /\ file \in Copies BY <1>0, <2>6, <2>7 DEF FilesInv, FilesTypes, OneKey, Copies
    <3> QED BY <2>3, <2>4, <2>6, <2>7, <3>1 DEF FilesInv, OneKey
  <2> QED BY <2>1, <2>4, <2>5, <2>6, <2>7, BeginKeeps
<1>4. CASE Disk!SetUp \/ Disk!EndAuth
  <2>1. /\ ~Pending /\ ~Pending' /\ UNCHANGED <<file, asking, writer, overlap, cookies, cut, saved>>
        /\ loop' \in Writes \cup {None}
    <3>1. CASE Disk!SetUp
      BY <3>1 DEF Disk!SetUp, Disk!BeginAuth, Pending, Writes, Disk!history
    <3>2. CASE Disk!EndAuth
      BY <3>2 DEF Disk!EndAuth, Pending, Disk!history
    <3> QED BY <1>4, <3>1, <3>2
  <2>2. Copies' = Copies /\ (Keyed' <=> Keyed) BY <2>1 DEF Copies, Keyed
  <2>3. (Migrating' <=> Migrating) /\ ~Saving /\ ~Saving' BY <2>1 DEF Migrating, Saving
  <2>4. FilesTypes' BY <1>0, <2>1 DEF FilesTypes
  <2>5. ~cut' => OneKey' BY <2>1, <2>2, <2>3 DEF FilesInv, OneKey, Migrates
  <2>6. LastSaved' BY <2>1, <2>3 DEF FilesInv, LastSaved, AsSaved
  <2> QED BY <2>4, <2>5, <2>6 DEF FilesInv
<1>5. ASSUME NEW b \in Browsers, Disk!Ask(b) \/ Disk!LogIn(b) \/ Disk!LogOut(b) PROVE FilesInv'
  <2>2. CASE /\ UNCHANGED <<file, loop, writer, overlap, cut, saved>>
             /\ asking' = asking \/ (asking' = asking \cup {b} /\ cookies[b] # None)
             /\ \/ cookies' = cookies
                \/ cookies' = [cookies EXCEPT ![b] = None]
                \/ loop = None /\ Disk!Load.key # None /\ cookies' = [cookies EXCEPT ![b] = Disk!Load.key]
    <3>1. Disk!Load.key # None => file \in Contents /\ Disk!Load.key = file.key BY <1>0, LoadOf
    <3>2. FilesTypes'
      <4>1. Disk!Load.key \in Keys \cup {OldKey, None} BY <1>0, LoadOf DEF Contents
      <4> QED BY <1>0, <2>2, <4>1 DEF FilesTypes
    <3>3. Copies' = Copies /\ (Pending' <=> Pending) /\ (Saving' <=> Saving) /\ (Migrating' <=> Migrating)
      BY <2>2 DEF Copies, Pending, Saving, Migrating
    <3>4. ASSUME ~cut' PROVE OneKey'
      <4>1. OneKey BY <2>2, <3>4 DEF FilesInv
      <4>2. \A c \in Browsers : \/ cookies'[c] \in {None, cookies[c]}
                                \/ loop = None /\ file \in Contents /\ file.key # None /\ cookies'[c] = file.key
        BY <1>0, <2>2, <3>1 DEF FilesTypes
      <4>3. file \in Contents => file \in Copies BY DEF Copies
      <4>4. ASSUME loop = None, file \in Contents, file.key # None PROVE \A copy \in Copies : copy.key = file.key
        <5>1. \A copy \in Copies : copy = file \/ (writer # None /\ copy.key # None)
          BY <4>1, <4>4 DEF Copies, Pending, OneKey, Keyed
        <5> QED BY <4>1, <4>3, <4>4, <5>1 DEF OneKey
      <4>5. \A copy \in Copies, c \in Browsers : cookies'[c] # None => copy.key = cookies'[c]
        BY <4>1, <4>2, <4>4 DEF OneKey
      <4>6. Keyed' => file # None /\ \A copy \in Copies : copy.key # None
        <5>1. Keyed' => Keyed \/ \E c \in Browsers : cookies'[c] # None BY <2>2 DEF Keyed
        <5>2. CASE Keyed BY <4>1, <5>2 DEF OneKey
        <5>3. ASSUME NEW c \in Browsers, cookies'[c] # None, ~Keyed PROVE file # None /\ \A copy \in Copies : copy.key # None
          <6>1. cookies[c] = None BY <5>3 DEF Keyed
          <6>2. file \in Contents BY <4>2, <5>3, <6>1
          <6> QED BY <4>5, <5>3, <6>2
        <5> QED BY <5>1, <5>2, <5>3
      <4> QED BY <2>2, <3>3, <4>1, <4>5, <4>6 DEF OneKey, Migrates
    <3>5. LastSaved' BY <2>2, <3>3 DEF FilesInv, LastSaved, AsSaved
    <3> QED BY <3>2, <3>4, <3>5 DEF FilesInv
  <2>3. CASE Disk!Ask(b)
    <3>1. CASE Disk!LoadWrites
      <4>1. Disk!Begin(None, FALSE, None) /\ UNCHANGED <<file, writer, overlap, cookies, saved>> /\ asking' \subseteq Browsers
            /\ cookies[b] # None
        BY <1>0, <2>3, <3>1 DEF Disk!Ask, FilesTypes
      <4>2. Keyed BY <4>1 DEF Keyed
      <4> QED BY <4>1, <4>2, BeginKeeps
    <3>2. CASE ~Disk!LoadWrites BY <2>2, <2>3, <3>2 DEF Disk!Ask
    <3> QED BY <3>1, <3>2
  <2>4. CASE Disk!LogIn(b)
    <3>1. CASE Disk!LoadWrites
      <4>1. Disk!Begin(None, FALSE, b) /\ UNCHANGED <<file, asking, writer, overlap, cookies, saved>>
        BY <2>4, <3>1 DEF Disk!LogIn
      <4>2. asking' \subseteq Browsers /\ (asking' # {} => Keyed) BY <1>0, <4>1 DEF FilesTypes, Keyed
      <4> QED BY <4>1, <4>2, BeginKeeps
    <3>2. CASE ~Disk!LoadWrites BY <2>2, <2>4, <3>2 DEF Disk!LogIn
    <3> QED BY <3>1, <3>2
  <2>5. CASE Disk!LogOut(b) BY <2>2, <2>5 DEF Disk!LogOut, Disk!writers, Disk!history
  <2> QED BY <1>5, <2>3, <2>4, <2>5
<1>6. CASE Disk!Crash
  <2>1. /\ loop' = None /\ asking' = {} /\ writer' = None /\ overlap' = FALSE /\ cut' = (cut \/ file = Torn)
        /\ saved' = IF file = Torn THEN None ELSE saved
        /\ UNCHANGED <<file, cookies>>
    BY <1>6 DEF Disk!Crash
  <2>2. ~Pending' /\ ~Saving' /\ ~Migrating' /\ (Keyed' => Keyed) BY <2>1 DEF Pending, Saving, Migrating, Keyed
  <2>3. FilesTypes' BY <1>0, <2>1 DEF FilesTypes
  <2>4. ASSUME ~cut' PROVE OneKey'
    <3>1. OneKey /\ file # Torn BY <1>0, <2>1, <2>4 DEF FilesInv, FilesTypes
    <3>2. Copies' \subseteq Copies BY <2>1, <2>2 DEF Copies
    <3> QED BY <2>1, <2>2, <3>1, <3>2 DEF OneKey, Migrates
  <2>5. LastSaved' BY <2>1, <2>2 DEF FilesInv, LastSaved, AsSaved
  <2> QED BY <2>3, <2>4, <2>5 DEF FilesInv
<1>7. CASE UNCHANGED disk
  BY <1>7 DEF disk, FilesInv, FilesTypes, OneKey, LastSaved, Copies, Pending, Saving, Migrating, Keyed, AsSaved
<1>8. CASE Disk!Next
  BY <1>1, <1>2, <1>3, <1>4, <1>5, <1>6, <1>8, OpenKeeps, EndKeeps, ThreadKeeps DEF Disk!Next
<1> QED BY <1>7, <1>8

--------------------------------------------------------------------------------
(* Encrypted calls                                                          *)

\* g is the recursive function that Value takes the last element of
Valuation(radix, digits, n, g) ==
  g = [i \in 0 .. n |-> IF i = 0 THEN 0 ELSE g[i - 1] * radix + digits[i]]

\* The recursive function of Value exists, by the least length without one.
LEMMA ValuationExists ==
  ASSUME NEW radix, NEW digits, NEW n \in Nat
  PROVE  \E g : Valuation(radix, digits, n, g)
<1> DEFINE Without == {m \in Nat : ~\E g : Valuation(radix, digits, m, g)}
<1> SUFFICES ASSUME Without # {} PROVE FALSE OBVIOUS
<1>0. Without \subseteq Nat OBVIOUS
<1>1. PICK m \in Without : \A k \in Without : m <= k
  <2> HIDE DEF Without
  <2> QED BY <1>0, LeastNumber
<1>2. CASE m = 0
  <2>1. Valuation(radix, digits, 0, [i \in 0 .. 0 |-> 0]) BY DEF Valuation
  <2> QED BY <1>1, <1>2, <2>1
<1>3. CASE m # 0
  <2>1. m - 1 \in Nat /\ m - 1 \notin Without BY <1>1, <1>3
  <2>2. PICK g : Valuation(radix, digits, m - 1, g) BY <2>1
  <2> DEFINE h == [i \in 0 .. m |-> IF i = m THEN g[m - 1] * radix + digits[m] ELSE g[i]]
  <2>3. ASSUME NEW i \in 0 .. m
        PROVE  h[i] = IF i = 0 THEN 0 ELSE h[i - 1] * radix + digits[i]
    BY <1>3, <2>2, <2>3 DEF Valuation
  <2>4. h = [i \in 0 .. m |-> IF i = 0 THEN 0 ELSE h[i - 1] * radix + digits[i]] BY <2>3
  <2>5. Valuation(radix, digits, m, h) BY <2>4 DEF Valuation
  <2> QED BY <1>1, <2>5
<1> QED BY <1>2, <1>3

Computes(radix, digits, n, g) ==
  g[0] = 0 /\ \A i \in 1 .. n : g[i] = g[i - 1] * radix + digits[i]

\* Value is the last element of such a function.
LEMMA ValueUnfolds ==
  ASSUME NEW radix, NEW digits \in Seq(Nat)
  PROVE  \E g : Computes(radix, digits, Len(digits), g) /\ Crypt!Value(radix, digits) = g[Len(digits)]
<1> DEFINE g == CHOOSE g : Valuation(radix, digits, Len(digits), g)
<1>0. Len(digits) \in Nat OBVIOUS
<1>1. Valuation(radix, digits, Len(digits), g) BY <1>0, ValuationExists
<1>2. Crypt!Value(radix, digits) = g[Len(digits)] BY DEF Crypt!Value, Valuation
<1> HIDE DEF g
<1>3. ASSUME NEW i \in 0 .. Len(digits)
      PROVE  g[i] = IF i = 0 THEN 0 ELSE g[i - 1] * radix + digits[i]
  BY <1>1 DEF Valuation
<1>4. g[0] = 0 BY <1>0, <1>3
<1>5. ASSUME NEW i \in 1 .. Len(digits)
      PROVE  g[i] = g[i - 1] * radix + digits[i]
  <2>1. i \in 0 .. Len(digits) /\ i # 0 BY <1>0
  <2> QED BY <1>3, <2>1
<1>6. Computes(radix, digits, Len(digits), g) BY <1>4, <1>5 DEF Computes
<1> QED BY <1>2, <1>6

\* One more digit multiplies by the base and adds.
LEMMA ValueAppend ==
  ASSUME NEW radix \in Nat, NEW digits \in Seq(Nat), NEW d \in Nat
  PROVE  /\ Crypt!Value(radix, Append(digits, d)) = Crypt!Value(radix, digits) * radix + d
         /\ Crypt!Value(radix, <<>>) = 0
<1> DEFINE n == Len(digits)
<1>0. /\ n \in Nat /\ Append(digits, d) \in Seq(Nat) /\ Len(Append(digits, d)) = n + 1
      /\ \A i \in 1 .. n : Append(digits, d)[i] = digits[i]
      /\ Append(digits, d)[n + 1] = d
  BY AppendOf
<1>1. PICK g : Computes(radix, digits, n, g) /\ Crypt!Value(radix, digits) = g[n]
  BY ValueUnfolds
<1>2. PICK h : Computes(radix, Append(digits, d), n + 1, h) /\ Crypt!Value(radix, Append(digits, d)) = h[n + 1]
  BY <1>0, ValueUnfolds
<1> HIDE DEF n
<1>a. g[0] = 0 /\ \A i \in 1 .. n : g[i] = g[i - 1] * radix + digits[i] BY <1>1 DEF Computes
<1>b. h[0] = 0 /\ \A i \in 1 .. n + 1 : h[i] = h[i - 1] * radix + Append(digits, d)[i]
  BY <1>2 DEF Computes
<1>3. h[n + 1] = h[n] * radix + d
  <2>1. n + 1 \in 1 .. n + 1 /\ (n + 1) - 1 = n BY <1>0
  <2> QED BY <1>0, <1>b, <2>1
<1>4. g[n] = h[n]
  <2> DEFINE Differ == {i \in 0 .. n : g[i] # h[i]}
  <2> SUFFICES ASSUME Differ # {} PROVE FALSE BY <1>0
  <2>1. Differ \subseteq Nat BY <1>0
  <2>2. PICK i \in Differ : \A k \in Differ : i <= k
    <3> HIDE DEF Differ
    <3> QED BY <2>1, LeastNumber
  <2>3. i # 0 BY <1>a, <1>b
  <2>4. g[i - 1] = h[i - 1] /\ i \in 1 .. n /\ i - 1 \in 0 .. n BY <1>0, <2>2, <2>3
  <2>5. g[i] = g[i - 1] * radix + digits[i] BY <1>a, <2>4
  <2>6. h[i] = h[i - 1] * radix + digits[i]
    <3>1. i \in 1 .. n + 1 /\ Append(digits, d)[i] = digits[i] BY <1>0, <2>4
    <3> QED BY <1>b, <3>1
  <2> QED BY <2>4, <2>5, <2>6
<1>5. Crypt!Value(radix, <<>>) = 0
  <2>1. <<>> \in Seq(Nat) /\ Len(<<>>) = 0 OBVIOUS
  <2>2. PICK e : Computes(radix, <<>>, 0, e) /\ Crypt!Value(radix, <<>>) = e[0]
    BY <2>1, ValueUnfolds
  <2> QED BY <2>2 DEF Computes
<1> QED BY <1>1, <1>2, <1>3, <1>4, <1>5

\* g is the recursive function that Digits takes the last element of
Spelling(radix, n, g) ==
  g = [m \in 0 .. n |-> IF m < radix THEN <<m>> ELSE Append(g[m \div radix], m % radix)]

\* A number of more than one digit is its quotient and its remainder.
LEMMA Division ==
  ASSUME NEW radix \in {10, 16}, NEW n \in Nat, ~(n < radix)
  PROVE  /\ n \div radix \in 0 .. n - 1 /\ n % radix \in 0 .. radix - 1
         /\ n = (n \div radix) * radix + (n % radix)
<1>1. CASE radix = 10
  <2>1. /\ n \div 10 \in 0 .. n - 1 /\ n % 10 \in 0 .. 9
        /\ n = (n \div 10) * 10 + (n % 10)
    BY <1>1
  <2> QED BY <1>1, <2>1
<1>2. CASE radix = 16
  <2>1. /\ n \div 16 \in 0 .. n - 1 /\ n % 16 \in 0 .. 15
        /\ n = (n \div 16) * 16 + (n % 16)
    BY <1>2
  <2> QED BY <1>2, <2>1
<1> QED BY <1>1, <1>2

\* The recursive function of Digits exists, by the least number without one.
LEMMA SpellingExists ==
  ASSUME NEW radix \in {10, 16}, NEW n \in Nat
  PROVE  \E g : Spelling(radix, n, g)
<1> DEFINE Without == {m \in Nat : ~\E g : Spelling(radix, m, g)}
<1> SUFFICES ASSUME Without # {} PROVE FALSE OBVIOUS
<1>0. Without \subseteq Nat OBVIOUS
<1>1. PICK m \in Without : \A k \in Without : m <= k
  <2> HIDE DEF Without
  <2> QED BY <1>0, LeastNumber
<1>2. CASE m = 0
  <2> DEFINE z == [k \in 0 .. 0 |-> <<0>>]
  <2>1. z = [k \in 0 .. 0 |-> IF k < radix THEN <<k>> ELSE Append(z[k \div radix], k % radix)]
    OBVIOUS
  <2>2. Spelling(radix, 0, z) BY <2>1 DEF Spelling
  <2> QED BY <1>1, <1>2, <2>2
<1>3. CASE m # 0
  <2>1. m - 1 \in Nat /\ m - 1 \notin Without BY <1>1, <1>3
  <2>2. PICK g : Spelling(radix, m - 1, g) BY <2>1
  <2> DEFINE h == [k \in 0 .. m |-> IF k # m THEN g[k] ELSE IF m < radix THEN <<m>> ELSE Append(g[m \div radix], m % radix)]
  <2>3. ASSUME NEW k \in 0 .. m
        PROVE  h[k] = IF k < radix THEN <<k>> ELSE Append(h[k \div radix], k % radix)
    <3>1. ~(k < radix) => k \div radix \in 0 .. k - 1 BY Division
    <3>2. CASE k = m
      <4>1. ~(k < radix) => h[k \div radix] = g[k \div radix] BY <3>1, <3>2
      <4> QED BY <3>2, <4>1
    <3>3. CASE k # m
      <4>1. k \in 0 .. m - 1 BY <3>3
      <4>2. g[k] = IF k < radix THEN <<k>> ELSE Append(g[k \div radix], k % radix)
        BY <2>2, <4>1 DEF Spelling
      <4>3. ~(k < radix) => h[k \div radix] = g[k \div radix] BY <3>1, <4>1
      <4> QED BY <3>3, <4>2, <4>3
    <3> QED BY <3>2, <3>3
  <2>4. h = [k \in 0 .. m |-> IF k < radix THEN <<k>> ELSE Append(h[k \div radix], k % radix)]
    BY <2>3
  <2>5. Spelling(radix, m, h) BY <2>4 DEF Spelling
  <2> QED BY <1>1, <2>5
<1> QED BY <1>2, <1>3

\* An element of it.
LEMMA SpellingAt ==
  ASSUME NEW radix, NEW n \in Nat, NEW g, Spelling(radix, n, g), NEW m \in 0 .. n
  PROVE  g[m] = IF m < radix THEN <<m>> ELSE Append(g[m \div radix], m % radix)
BY DEF Spelling

\* Digits is the last element of such a function.
LEMMA DigitsUnfolds ==
  ASSUME NEW radix \in {10, 16}, NEW n \in Nat
  PROVE  \E g : Spelling(radix, n, g) /\ Crypt!Digits(radix, n) = g[n]
<1> DEFINE g == CHOOSE g : Spelling(radix, n, g)
<1>1. Spelling(radix, n, g) BY SpellingExists
<1>2. Crypt!Digits(radix, n) = g[n] BY DEF Crypt!Digits, Spelling
<1> QED BY <1>1, <1>2

\* The digits of a number: those of its quotient, and its remainder.
LEMMA DigitsOf ==
  ASSUME NEW radix \in {10, 16}, NEW n \in Nat
  PROVE  /\ n < radix => Crypt!Digits(radix, n) = <<n>>
         /\ ~(n < radix) => Crypt!Digits(radix, n) = Append(Crypt!Digits(radix, n \div radix), n % radix)
<1>1. PICK g : Spelling(radix, n, g) /\ Crypt!Digits(radix, n) = g[n] BY DigitsUnfolds
<1>2. n < radix => g[n] = <<n>> BY <1>1 DEF Spelling
<1>3. CASE ~(n < radix)
  <2> DEFINE q == n \div radix
  <2>1. q \in 0 .. n - 1 BY <1>3, Division
  <2> HIDE DEF q
  <2>2. PICK h : Spelling(radix, q, h) /\ Crypt!Digits(radix, q) = h[q]
    BY <2>1, DigitsUnfolds
  <2>3. g[n] = Append(g[q], n % radix)
    <3>1. n \in 0 .. n OBVIOUS
    <3>2. g[n] = IF n < radix THEN <<n>> ELSE Append(g[n \div radix], n % radix)
      BY <1>1, <3>1, SpellingAt, Zenon
    <3> QED BY <1>3, <3>2 DEF q
  <2>4. g[q] = h[q]
    <3> DEFINE Differ == {k \in 0 .. q : g[k] # h[k]}
    <3> SUFFICES ASSUME Differ # {} PROVE FALSE BY <2>1
    <3>1. Differ \subseteq Nat BY <2>1
    <3>2. PICK k \in Differ : \A other \in Differ : k <= other
      <4> HIDE DEF Differ
      <4> QED BY <3>1, LeastNumber
    <3>3. k \in 0 .. q /\ k \in 0 .. n /\ k \in Nat BY <2>1
    <3>4. g[k] = IF k < radix THEN <<k>> ELSE Append(g[k \div radix], k % radix)
      BY <1>1, <3>3 DEF Spelling
    <3>5. h[k] = IF k < radix THEN <<k>> ELSE Append(h[k \div radix], k % radix)
      BY <2>2, <3>3 DEF Spelling
    <3>6. ~(k < radix) BY <3>2, <3>4, <3>5
    <3>7. k \div radix \in 0 .. k - 1 BY <3>3, <3>6, Division
    <3>8. k \div radix \in 0 .. q /\ ~(k <= k \div radix) BY <2>1, <3>3, <3>7
    <3>9. g[k \div radix] = h[k \div radix] BY <3>2, <3>8
    <3> QED BY <3>2, <3>4, <3>5, <3>6, <3>9
  <2>5. Crypt!Digits(radix, n) = Append(Crypt!Digits(radix, q), n % radix)
    BY <1>1, <2>2, <2>3, <2>4
  <2> QED BY <1>3, <2>5 DEF q
<1> QED BY <1>1, <1>2, <1>3

\* A number that is written and read in one base comes back.
LEMMA ReadBack ==
  ASSUME NEW radix \in {10, 16}, NEW n \in Nat
  PROVE  Crypt!Digits(radix, n) \in Seq(0 .. radix - 1) /\ Crypt!Value(radix, Crypt!Digits(radix, n)) = n
<1> DEFINE Good(m) == Crypt!Digits(radix, m) \in Seq(0 .. radix - 1) /\ Crypt!Value(radix, Crypt!Digits(radix, m)) = m
           Bad == {m \in Nat : ~Good(m)}
<1> SUFFICES ASSUME Bad # {} PROVE FALSE OBVIOUS
<1>0. Bad \subseteq Nat OBVIOUS
<1>1. PICK m \in Bad : \A k \in Bad : m <= k
  <2> HIDE DEF Bad
  <2> QED BY <1>0, LeastNumber
<1>2. CASE m < radix
  <2>1. Crypt!Digits(radix, m) = <<m>> BY <1>2, DigitsOf
  <2>2. <<m>> \in Seq(0 .. radix - 1) /\ <<m>> = Append(<<>>, m) /\ <<>> \in Seq(Nat) BY <1>2
  <2>3. /\ Crypt!Value(radix, Append(<<>>, m)) = Crypt!Value(radix, <<>>) * radix + m
        /\ Crypt!Value(radix, <<>>) = 0
    <3>1. radix \in Nat /\ m \in Nat OBVIOUS
    <3> QED BY <2>2, <3>1, ValueAppend, Zenon
  <2>4. Crypt!Value(radix, <<m>>) = m
    <3>1. CASE radix = 10 BY <2>2, <2>3, <3>1
    <3>2. CASE radix = 16 BY <2>2, <2>3, <3>2
    <3> QED BY <3>1, <3>2
  <2> QED BY <1>1, <2>1, <2>2, <2>4
<1>3. CASE ~(m < radix)
  <2> DEFINE q == m \div radix
             d == m % radix
             digits == Crypt!Digits(radix, q)
  <2>1. q \in 0 .. m - 1 /\ d \in 0 .. radix - 1 /\ m = q * radix + d BY <1>3, Division
  <2>2. Crypt!Digits(radix, m) = Append(digits, d) BY <1>3, DigitsOf
  <2> HIDE DEF q, d
  <2>3. Good(q)
    <3>1. q \in Nat /\ ~(m <= q) BY <2>1
    <3> QED BY <1>1, <3>1
  <2>4. digits \in Seq(0 .. radix - 1) /\ digits \in Seq(Nat) /\ Crypt!Value(radix, digits) = q
    BY <2>3
  <2> HIDE DEF digits
  <2>5. Append(digits, d) \in Seq(0 .. radix - 1) BY <2>1, <2>4, AppendOf
  <2>6. Crypt!Value(radix, Append(digits, d)) = q * radix + d
    <3>1. radix \in Nat /\ d \in Nat BY <2>1
    <3> QED BY <2>4, <3>1, ValueAppend, Zenon
  <2> QED BY <1>1, <2>1, <2>2, <2>5, <2>6
<1> QED BY <1>2, <1>3

--------------------------------------------------------------------------------
\* What is written in decimal is read in decimal.
LEMMA DecimalText ==
  ASSUME NEW n \in Nat
  PROVE  /\ Crypt!Decimal(n) \in [prefixed : BOOLEAN, digits : Seq(Nat)] /\ Crypt!Decimal(n).prefixed = FALSE
         /\ Crypt!IsDecimal(Crypt!Decimal(n).digits) /\ Crypt!Value(10, Crypt!Decimal(n).digits) = n
<1> DEFINE digits == Crypt!Digits(10, n)
<1>1. digits \in Seq(0 .. 9) /\ Crypt!Value(10, digits) = n
  <2>1. 10 \in {10, 16} /\ 10 - 1 = 9 OBVIOUS
  <2> QED BY <2>1, ReadBack
<1> HIDE DEF digits
<1>2. digits \in Seq(Nat) /\ \A i \in DOMAIN digits : digits[i] < 10 BY <1>1
<1>3. Crypt!Decimal(n) = [prefixed |-> FALSE, digits |-> digits] BY DEF Crypt!Decimal, digits
<1> QED BY <1>1, <1>2, <1>3 DEF Crypt!IsDecimal

\* Sequences of two numbers, put together one by one.
LEMMA TwoDigits ==
  ASSUME NEW x \in Nat, NEW y \in Nat
  PROVE  /\ <<>> \in Seq(Nat) /\ <<x>> \in Seq(Nat) /\ <<x, y>> \in Seq(Nat) /\ Len(<<x, y>>) = 2
         /\ Append(<<>>, x) = <<x>> /\ Append(<<x>>, y) = <<x, y>>
<1>1. <<>> \in Seq(Nat) /\ <<x>> \in Seq(Nat) /\ Append(<<>>, x) = <<x>> OBVIOUS
<1>2. <<x, y>> \in Seq(Nat) /\ Len(<<x, y>>) = 2 OBVIOUS
<1>3. Append(<<x>>, y) = <<x, y>>
  <2>1. Len(<<x>>) = 1 /\ Len(Append(<<x>>, y)) = 2 /\ Append(<<x>>, y) \in Seq(Nat) OBVIOUS
  <2>2. Append(<<x>>, y)[1] = x /\ Append(<<x>>, y)[2] = y OBVIOUS
  <2>3. \A i \in 1 .. 2 : Append(<<x>>, y)[i] = <<x, y>>[i]
    <3>1. \A i \in 1 .. 2 : i = 1 \/ i = 2 OBVIOUS
    <3>2. <<x, y>>[1] = x /\ <<x, y>>[2] = y OBVIOUS
    <3> QED BY <2>2, <3>1, <3>2
  <2> QED BY <1>2, <2>1, <2>3, SeqEqual
<1> QED BY <1>1, <1>2, <1>3

\* An ALGID of two hexadecimal digits.
LEMMA HexText ==
  ASSUME NEW a \in 16 .. 255
  PROVE  LET text == Crypt!Hex(a)
         IN  /\ text \in [prefixed : BOOLEAN, digits : Seq(Nat)] /\ text.prefixed = FALSE
             /\ Crypt!Value(16, text.digits) = a /\ Len(text.digits) = 2
             /\ Crypt!IsDecimal(text.digits) => Crypt!Value(10, text.digits) \in 0 .. 99
<1> DEFINE x == a \div 16
           y == a % 16
<1>1. x \in 1 .. 15 /\ y \in 0 .. 15 /\ a = x * 16 + y OBVIOUS
<1>2. Crypt!Digits(16, a) = <<x, y>>
  <2>1. Crypt!Digits(16, x) = <<x>>
    <3>1. 16 \in {10, 16} /\ x \in Nat /\ x < 16 BY <1>1
    <3> HIDE DEF x
    <3> QED BY <3>1, DigitsOf
  <2>2. Crypt!Digits(16, a) = Append(Crypt!Digits(16, a \div 16), a % 16)
    <3>1. 16 \in {10, 16} /\ a \in Nat /\ ~(a < 16) OBVIOUS
    <3> QED BY <3>1, DigitsOf
  <2>3. Append(<<x>>, y) = <<x, y>>
    <3>1. x \in Nat /\ y \in Nat BY <1>1
    <3> HIDE DEF x, y
    <3> QED BY <3>1, TwoDigits
  <2> QED BY <2>1, <2>2, <2>3
<1> HIDE DEF x, y
<1>3. ASSUME NEW radix \in {10, 16} PROVE Crypt!Value(radix, <<x, y>>) = x * radix + y
  <2>1. <<>> \in Seq(Nat) /\ <<x>> \in Seq(Nat) /\ Append(<<>>, x) = <<x>> /\ Append(<<x>>, y) = <<x, y>>
        /\ radix \in Nat /\ x \in Nat /\ y \in Nat
    <3>1. x \in Nat /\ y \in Nat /\ radix \in Nat BY <1>1
    <3> QED BY <3>1, TwoDigits
  <2>2. Crypt!Value(radix, <<>>) = 0 /\ Crypt!Value(radix, Append(<<>>, x)) = Crypt!Value(radix, <<>>) * radix + x
    BY <2>1, ValueAppend, Zenon
  <2>3. Crypt!Value(radix, Append(<<x>>, y)) = Crypt!Value(radix, <<x>>) * radix + y
    BY <2>1, ValueAppend, Zenon
  <2>4. Crypt!Value(radix, <<x>>) = x
    <3>1. Crypt!Value(radix, <<x>>) = 0 * radix + x BY <2>1, <2>2
    <3>2. 0 * radix + x = x BY <2>1
    <3> QED BY <3>1, <3>2
  <2> QED BY <2>1, <2>3, <2>4
<1>4. Crypt!Value(16, <<x, y>>) = a /\ Crypt!Value(10, <<x, y>>) = x * 10 + y
  <2>1. Crypt!Value(16, <<x, y>>) = x * 16 + y /\ Crypt!Value(10, <<x, y>>) = x * 10 + y BY <1>3
  <2> QED BY <1>1, <2>1
<1>5. Crypt!IsDecimal(<<x, y>>) => x < 10 /\ y < 10
  <2>1. 1 \in DOMAIN <<x, y>> /\ 2 \in DOMAIN <<x, y>> /\ <<x, y>>[1] = x /\ <<x, y>>[2] = y OBVIOUS
  <2> QED BY <2>1 DEF Crypt!IsDecimal
<1>6. Crypt!Hex(a) = [prefixed |-> FALSE, digits |-> <<x, y>>]
  <2>1. ~(a < 16) OBVIOUS
  <2> QED BY <1>2, <2>1 DEF Crypt!Hex
<1>7. <<x, y>> \in Seq(Nat) /\ Len(<<x, y>>) = 2
  <2>1. x \in Nat /\ y \in Nat BY <1>1
  <2> QED BY <2>1, TwoDigits
<1>8. Crypt!IsDecimal(<<x, y>>) => x * 10 + y \in 0 .. 99 BY <1>1, <1>5
<1> DEFINE text == Crypt!Hex(a)
<1>9. text.prefixed = FALSE /\ text.digits = <<x, y>> BY <1>6
<1>10. text \in [prefixed : BOOLEAN, digits : Seq(Nat)] BY <1>6, <1>7
<1> HIDE DEF text
<1>11. /\ text \in [prefixed : BOOLEAN, digits : Seq(Nat)] /\ text.prefixed = FALSE
       /\ Crypt!Value(16, text.digits) = a /\ Len(text.digits) = 2
       /\ Crypt!IsDecimal(text.digits) => Crypt!Value(10, text.digits) \in 0 .. 99
  BY <1>4, <1>7, <1>8, <1>9, <1>10
<1> QED BY <1>11 DEF text

\* The number of an algorithm is read back from both of its texts, and from the link.
LEMMA AlgidRead ==
  ASSUME NEW a \in Crypt!Known
  PROVE  /\ Crypt!CoerceAlgid(Crypt!Decimal(a)) = a /\ Crypt!CoerceAlgid(Crypt!Hex(a)) = a
         /\ Crypt!CoerceAlgid(Crypt!NoPrefix(Crypt!Hex(a))) = a
         /\ Crypt!ParseIntId(Crypt!Prefixed(Crypt!Hex(a))) = a
<1>0. a \in Nat /\ a \in 16 .. 255 /\ a >= 128 /\ a # None BY NoneAssumption DEF Crypt!Known
<1> DEFINE dec == Crypt!Decimal(a)
           hex == Crypt!Hex(a)
<1>1. /\ dec \in [prefixed : BOOLEAN, digits : Seq(Nat)] /\ dec.prefixed = FALSE
      /\ Crypt!IsDecimal(dec.digits) /\ Crypt!Value(10, dec.digits) = a
  BY <1>0, DecimalText
<1>2. /\ hex \in [prefixed : BOOLEAN, digits : Seq(Nat)] /\ hex.prefixed = FALSE
      /\ Crypt!Value(16, hex.digits) = a /\ Len(hex.digits) = 2
      /\ Crypt!IsDecimal(hex.digits) => Crypt!Value(10, hex.digits) \in 0 .. 99
  BY <1>0, HexText
<1> HIDE DEF dec, hex
<1>3. dec # None /\ hex # None BY <1>1, <1>2, NoneAssumption
<1>4. Crypt!InRange(a) = a BY <1>0 DEF Crypt!InRange
<1>5. Crypt!CoerceAlgid(dec) = a
  BY <1>1, <1>3, <1>4 DEF Crypt!CoerceAlgid
<1>6. \A n \in 0 .. 99 : n <= 255 /\ n \notin Crypt!Known BY DEF Crypt!Known
<1>7. Crypt!CoerceAlgid(hex) = a
  <2>1. CASE Crypt!IsDecimal(hex.digits)
    <3>1. Crypt!Value(10, hex.digits) \notin Crypt!Known /\ Crypt!Value(10, hex.digits) <= 255
      BY <1>2, <1>6, <2>1
    <3>2. Len(hex.digits) <= 2 /\ hex.prefixed = FALSE /\ Crypt!Value(16, hex.digits) \in Crypt!Known
      BY <1>2
    <3> QED BY <1>2, <1>3, <2>1, <3>1, <3>2 DEF Crypt!CoerceAlgid
  <2>2. CASE ~Crypt!IsDecimal(hex.digits)
    BY <1>2, <1>3, <1>4, <2>2 DEF Crypt!CoerceAlgid
  <2> QED BY <2>1, <2>2
<1>8. Crypt!NoPrefix(hex) = hex BY <1>2, <1>3 DEF Crypt!NoPrefix
<1>9. Crypt!ParseIntId(Crypt!Prefixed(hex)) = a
  <2>1. Crypt!Prefixed(hex).prefixed = TRUE /\ Crypt!Prefixed(hex).digits = hex.digits
    BY <1>2 DEF Crypt!Prefixed
  <2> QED BY <1>2, <1>4, <2>1 DEF Crypt!ParseIntId
<1> QED BY <1>5, <1>7, <1>8, <1>9 DEF dec, hex

\* The number of a key is read back from its text.
\* what parse_int_id takes for a number of 16 bits
Ranged == {k \in Nat : Crypt!InRange(k) = k}

\* The id of a key is read back from its decimal text, in an event and in the form.
LEMMA KidRead ==
  ASSUME NEW k \in Ranged
  PROVE  /\ Crypt!ParseIntId(Crypt!Decimal(k)) = k /\ Crypt!CoerceKid(Crypt!Decimal(k)) = k
         /\ Crypt!CoerceKid(Crypt!NoPrefix(Crypt!Decimal(k))) = k /\ k # None
<1> DEFINE dec == Crypt!Decimal(k)
<1>1. /\ dec \in [prefixed : BOOLEAN, digits : Seq(Nat)] /\ dec.prefixed = FALSE
      /\ Crypt!IsDecimal(dec.digits) /\ Crypt!Value(10, dec.digits) = k
  BY DecimalText DEF Ranged
<1> HIDE DEF dec
<1>2. dec # None /\ k # None BY <1>1, NoneAssumption DEF Ranged
<1>3. Crypt!ParseIntId(dec) = k BY <1>1 DEF Crypt!ParseIntId, Ranged
<1>4. Crypt!NoPrefix(dec) = dec BY <1>1, <1>2 DEF Crypt!NoPrefix
<1> QED BY <1>2, <1>3, <1>4 DEF Crypt!CoerceKid, dec

\* The keyset the pages make of the texts of a call is that of the call, and so is the form's.
LEMMA FormFilled ==
  ASSUME NEW ids \in [algid : Crypt!Known \ {128}, kid : Ranged]
  PROVE  LET keyset == Crypt!Keyset(Crypt!Hex(ids.algid), Crypt!Decimal(ids.kid))
         IN  keyset = ids /\ Crypt!FormKey(Crypt!Link(keyset)) = ids
<1> DEFINE keyset == Crypt!Keyset(Crypt!Hex(ids.algid), Crypt!Decimal(ids.kid))
<1>0. ids.algid \in Crypt!Known /\ ids.algid # 128 /\ ids.kid \in Ranged OBVIOUS
<1>1. keyset = ids
  <2>1. Crypt!CoerceAlgid(Crypt!Hex(ids.algid)) = ids.algid BY <1>0, AlgidRead
  <2>2. Crypt!CoerceKid(Crypt!Decimal(ids.kid)) = ids.kid BY <1>0, KidRead
  <2>3. ids = [algid |-> ids.algid, kid |-> ids.kid] OBVIOUS
  <2> QED BY <2>1, <2>2, <2>3 DEF Crypt!Keyset
<1>2. Crypt!FormKey(Crypt!Link(ids)) = ids
  <2> DEFINE form == Crypt!Link(ids)
  <2>1. /\ form.algid = Crypt!Prefixed(Crypt!Hex(ids.algid)) /\ form.algorithm = ids.algid
        /\ form.kid = Crypt!Decimal(ids.kid)
    BY DEF Crypt!Link
  <2> HIDE DEF form
  <2>2. Crypt!ParseIntId(form.algid) = ids.algid BY <1>0, <2>1, AlgidRead
  <2>3. Crypt!ParseIntId(form.kid) = ids.kid /\ ids.kid # None BY <1>0, <2>1, KidRead
  <2>4. ids.algid # None BY <1>0, NoneAssumption DEF Crypt!Known
  <2>5. ids = [algid |-> ids.algid, kid |-> ids.kid] OBVIOUS
  <2>6. Crypt!FormKey(form) = ids BY <1>0, <2>1, <2>2, <2>3, <2>4, <2>5 DEF Crypt!FormKey
  <2> QED BY <2>6 DEF form
<1> QED BY <1>1, <1>2

\* What the events of a call are resolved to: its ids, or nothing.
LEMMA EventResolved ==
  ASSUME NEW ids \in [algid : Crypt!Known, kid : Ranged], NEW event \in Crypt!Events(ids)
  PROVE  Crypt!Resolve(event) \in {ids, [algid |-> None, kid |-> None]}
<1>0. ids.algid \in Crypt!Known /\ ids.kid \in Ranged /\ ids = [algid |-> ids.algid, kid |-> ids.kid]
  OBVIOUS
<1>1. /\ Crypt!CoerceAlgid(Crypt!Decimal(ids.algid)) = ids.algid
      /\ Crypt!CoerceAlgid(Crypt!NoPrefix(Crypt!Hex(ids.algid))) = ids.algid
      /\ ids.algid # None
  BY <1>0, AlgidRead, NoneAssumption DEF Crypt!Known
<1>2. /\ Crypt!CoerceKid(Crypt!Decimal(ids.kid)) = ids.kid
      /\ Crypt!CoerceKid(Crypt!NoPrefix(Crypt!Decimal(ids.kid))) = ids.kid /\ ids.kid # None
  BY <1>0, KidRead
<1>3. Crypt!CoerceAlgid(None) = None /\ Crypt!CoerceKid(None) = None /\ Crypt!NoPrefix(None) = None
  BY DEF Crypt!CoerceAlgid, Crypt!CoerceKid, Crypt!NoPrefix
<1>4. CASE event = [alg |-> Crypt!Decimal(ids.algid), algHex |-> Crypt!Hex(ids.algid), kid |-> Crypt!Decimal(ids.kid), details |-> Crypt!NoDetails]
  BY <1>0, <1>1, <1>2, <1>4 DEF Crypt!Resolve, Crypt!FirstOf
<1>5. CASE event = [alg |-> None, algHex |-> None, kid |-> None,
                    details |-> [alg |-> Crypt!Hex(ids.algid), kid |-> Crypt!Decimal(ids.kid)]]
  BY <1>0, <1>1, <1>2, <1>3, <1>5 DEF Crypt!Resolve, Crypt!FirstOf
<1>6. CASE event = [alg |-> None, algHex |-> None, kid |-> None, details |-> Crypt!NoDetails]
  BY <1>3, <1>6 DEF Crypt!Resolve, Crypt!FirstOf, Crypt!NoDetails
<1> QED BY <1>4, <1>5, <1>6 DEF Crypt!Events

--------------------------------------------------------------------------------
\* the fields of a entry that say which call it is
RowFields(entry) ==
  /\ {"radio", "ids", "at"} \subseteq DOMAIN entry
  /\ entry.at \in Nat /\ entry.at <= clock

CallsTypes ==
  /\ net \in Algids /\ clock \in Nat
  /\ heard \in [Radios -> Crypt!Ids \cup {None}] /\ DOMAIN identity = Radios
  /\ \A entry \in archive : RowFields(entry)

\* what is remembered of a radio whose call had ids, are the texts of those ids
Remembered ==
  \A r \in Radios : heard[r] # None /\ net \in Crypt!Known =>
    identity[r].alg = Crypt!Hex(net) /\ identity[r].kid = Crypt!Decimal(heard[r].kid)

CallsInv == CallsTypes /\ Remembered /\ Crypt!ArchivedOnce

\* The ids of keys are numbers of 16 bits.
LEMMA KidsRanged == Kids \subseteq Ranged
<1>1. ASSUME NEW k \in Kids PROVE k \in Nat /\ k <= 65535 BY CallAssumption, SMT
<1>2. ASSUME NEW k \in Kids PROVE Crypt!InRange(k) = k BY <1>1, SMT DEF Crypt!InRange
<1>3. ASSUME NEW k \in Kids PROVE k \in Nat BY <1>1, SMT
<1> QED BY <1>2, <1>3 DEF Ranged

\* No net uses the algorithm id of a clear call.
LEMMA AlgidsAre == Algids \subseteq Nat /\ 128 \notin Algids
<1>1. ASSUME NEW a \in Algids PROVE a \in Nat /\ a # 128 BY CallAssumption, SMT
<1> QED BY <1>1

\* The times of the archive are numbers.
LEMMA TimesAre == Dedupe \in Nat /\ Retention \in Nat /\ MaxTime \in Nat
BY CallAssumption

\* The texts that are remembered of a radio fill the form with the ids of its call.
LEMMA CallsImply ==
  CallsInv => Crypt!KeysetFills
<1> SUFFICES ASSUME CallsInv, NEW r \in Radios, heard[r] # None, heard[r].algid \in Crypt!Known
             PROVE  LET keyset == Crypt!Keyset(identity[r].alg, identity[r].kid)
                    IN  keyset = heard[r] /\ Crypt!FormKey(Crypt!Link(keyset)) = heard[r]
  BY DEF Crypt!KeysetFills
<1>1. heard[r] \in [algid : {net}, kid : Kids] BY DEF CallsInv, CallsTypes, Crypt!Ids
<1>2. heard[r].algid = net /\ heard[r].kid \in Kids /\ heard[r] = [algid |-> heard[r].algid, kid |-> heard[r].kid]
  BY <1>1
<1>3. net # 128 BY AlgidsAre DEF CallsInv, CallsTypes
<1>4. heard[r] \in [algid : Crypt!Known \ {128}, kid : Ranged] BY <1>2, <1>3, KidsRanged
<1>5. identity[r].alg = Crypt!Hex(heard[r].algid) /\ identity[r].kid = Crypt!Decimal(heard[r].kid)
  BY <1>2 DEF CallsInv, Remembered
<1> QED BY <1>4, <1>5, FormFilled

\* No call was heard and none is archived.
LEMMA CallsInit == Crypt!Init => CallsInv
BY DEF Crypt!Init, CallsInv, CallsTypes, Remembered, Crypt!ArchivedOnce

\* The newest of the rows a call may be counted to.
LEMMA NewestRow ==
  ASSUME NEW rows, rows # {}, clock \in Nat, \A entry \in rows : RowFields(entry)
  PROVE  (CHOOSE entry \in rows : \A other \in rows : other.at <= entry.at) \in rows
<1> DEFINE ages == {clock - entry.at : entry \in rows}
<1>1. ages \subseteq Nat /\ ages # {} BY DEF RowFields
<1>2. PICK age \in ages : \A other \in ages : age <= other
  <2> HIDE DEF ages
  <2> QED BY <1>1, LeastNumber
<1>3. PICK entry \in rows : age = clock - entry.at BY <1>2
<1>4. ASSUME NEW other \in rows PROVE other.at <= entry.at
  <2>1. clock - other.at \in ages OBVIOUS
  <2>2. clock - entry.at <= clock - other.at BY <1>2, <1>3, <2>1
  <2> QED BY <2>2 DEF RowFields
<1> QED BY <1>3, <1>4

\* A call is put in a row of its own only when no row of it is near enough.
LEMMA RecordKeeps ==
  ASSUME CallsInv, NEW r \in Radios, NEW resolved, NEW at \in 0 .. clock, NEW loaded,
         Crypt!RecordDecode(r, resolved, at, loaded)
  PROVE  /\ \A entry \in archive' : RowFields(entry)
         /\ Crypt!ArchivedOnce'
<1> DEFINE rows == Crypt!Mergeable(r, resolved, at)
           newest == CHOOSE entry \in rows : \A other \in rows : other.at <= entry.at
           new == Crypt!NewRow(r, resolved, at, loaded)
           merged == Crypt!Merged(newest, loaded)
<1>0. clock \in Nat /\ at \in Nat /\ at <= clock /\ \A entry \in archive : RowFields(entry)
  BY DEF CallsInv, CallsTypes
<1>1. rows = {} => archive' = archive \cup {new} BY DEF Crypt!RecordDecode
<1>2. rows # {} => archive' = (archive \ {newest}) \cup {merged} BY DEF Crypt!RecordDecode
<1>3. CASE rows = {}
  <2>1. new.radio = r /\ new.ids = resolved /\ new.at = at /\ {"radio", "ids", "at"} \subseteq DOMAIN new
    BY DEF Crypt!NewRow
  <2> HIDE DEF new
  <2>2. RowFields(new) BY <1>0, <2>1 DEF RowFields
  <2>3. ASSUME NEW entry \in archive, entry.radio = r, entry.ids = resolved
        PROVE  at > entry.at + Dedupe
    <3>1. ~(entry.at + Dedupe >= at) BY <1>3, <2>3 DEF Crypt!Mergeable, Crypt!SameCall
    <3> QED BY <1>0, <3>1, TimesAre DEF RowFields
  <2>4. Crypt!ArchivedOnce'
    BY <1>1, <1>3, <2>1, <2>3 DEF CallsInv, Crypt!ArchivedOnce
  <2> QED BY <1>0, <1>1, <1>3, <2>2, <2>4
<1>4. CASE rows # {}
  <2>1. newest \in archive
    <3>1. rows \subseteq archive BY DEF Crypt!Mergeable
    <3>2. \A entry \in rows : RowFields(entry) BY <1>0, <3>1
    <3> HIDE DEF rows
    <3>3. newest \in rows BY <1>0, <1>4, <3>2, NewestRow
    <3> QED BY <3>1, <3>3
  <2> HIDE DEF rows, newest
  <2>2. RowFields(newest) BY <1>0, <2>1
  <2>3. /\ merged.radio = newest.radio /\ merged.ids = newest.ids /\ merged.at = newest.at
        /\ {"radio", "ids", "at"} \subseteq DOMAIN merged
    BY <2>2 DEF Crypt!Merged, RowFields
  <2> HIDE DEF merged
  <2>4. RowFields(merged) BY <2>2, <2>3 DEF RowFields
  <2>5. ASSUME NEW entry \in archive \ {newest}, entry.radio = merged.radio, entry.ids = merged.ids
        PROVE  entry.at > merged.at + Dedupe \/ merged.at > entry.at + Dedupe
    BY <2>1, <2>3, <2>5 DEF CallsInv, Crypt!ArchivedOnce
  <2>6. Crypt!ArchivedOnce'
    BY <1>2, <1>4, <2>5 DEF CallsInv, Crypt!ArchivedOnce
  <2> QED BY <1>0, <1>2, <1>4, <2>4, <2>6
<1> QED BY <1>3, <1>4

\* A call that carried ids, or none, is remembered by its ids, or by none.
LEMMA DecodeRemembers ==
  ASSUME CallsInv, NEW r \in Radios, NEW ids \in Crypt!Ids, Crypt!Decode(r, ids)
  PROVE  CallsInv'
<1>1. PICK event \in Crypt!Events(ids), at \in 0 .. clock :
        LET resolved == Crypt!Resolve(event)
            real == IF resolved.kid = None THEN None ELSE ids
            loaded == Crypt!KeyLoaded(real, resolved)
        IN  /\ Crypt!ObserveCall(r, resolved, loaded)
            /\ heard' = [heard EXCEPT ![r] = real]
            /\ \/ enabled /\ Crypt!RecordDecode(r, resolved, at, loaded)
               \/ UNCHANGED archive
            /\ UNCHANGED <<net, keyRows, index, enabled, clock>>
  BY DEF Crypt!Decode
<1> DEFINE resolved == Crypt!Resolve(event)
           real == IF resolved.kid = None THEN None ELSE ids
           loaded == Crypt!KeyLoaded(real, resolved)
<1>2. /\ Crypt!ObserveCall(r, resolved, loaded) /\ heard' = [heard EXCEPT ![r] = real]
      /\ UNCHANGED <<net, clock>>
  BY <1>1
<1>3. Crypt!RecordDecode(r, resolved, at, loaded) \/ UNCHANGED archive BY <1>1
<1> HIDE DEF loaded
<1>4. net \in Crypt!Known => real \in {ids, None} /\ (real # None => resolved = ids)
  <2> SUFFICES ASSUME net \in Crypt!Known
               PROVE  real \in {ids, None} /\ (real # None => resolved = ids)
    OBVIOUS
  <2>1. ids.algid = net /\ ids.kid \in Kids /\ ids = [algid |-> ids.algid, kid |-> ids.kid]
    BY DEF Crypt!Ids
  <2>2. ids \in [algid : Crypt!Known, kid : Ranged] BY <2>1, KidsRanged
  <2>3. resolved \in {ids, [algid |-> None, kid |-> None]} BY <2>2, EventResolved
  <2> HIDE DEF resolved
  <2>4. resolved # ids => resolved.kid = None BY <2>3
  <2> QED BY <2>4
<1>5. real \in Crypt!Ids \cup {None} OBVIOUS
<1> HIDE DEF resolved, real
<1>6. /\ net' = net /\ clock' = clock /\ Crypt!Ids' = Crypt!Ids
      /\ heard' \in [Radios -> Crypt!Ids \cup {None}] /\ DOMAIN identity' = Radios
  BY <1>2, <1>5 DEF CallsInv, CallsTypes, Crypt!ObserveCall, Crypt!Ids
<1>7. ASSUME NEW q \in Radios, heard'[q] # None, net \in Crypt!Known
      PROVE  identity'[q].alg = Crypt!Hex(net) /\ identity'[q].kid = Crypt!Decimal(heard'[q].kid)
  <2>1. CASE q # r
    <3>1. heard'[q] = heard[q] /\ identity'[q] = identity[q]
      BY <1>2, <2>1 DEF CallsInv, CallsTypes, Crypt!ObserveCall
    <3> QED BY <1>7, <3>1 DEF CallsInv, Remembered
  <2>2. CASE q = r
    <3>1. heard'[r] = real /\ real # None BY <1>2, <1>7, <2>2 DEF CallsInv, CallsTypes
    <3>2. real = ids /\ resolved = ids BY <1>4, <1>7, <3>1
    <3>3. identity'[r] = [alg |-> Crypt!Describe(ids.algid),
                          kid |-> IF ids.kid = None THEN None ELSE Crypt!Decimal(ids.kid), loaded |-> loaded]
      BY <1>2, <3>2 DEF CallsInv, CallsTypes, Crypt!ObserveCall
    <3>4. ids.algid = net /\ ids.kid \in Nat /\ net \in Nat
      BY KidsRanged, AlgidsAre DEF CallsInv, CallsTypes, Crypt!Ids, Ranged
    <3>5. ids.algid # None /\ ids.kid # None BY <3>4, NoneAssumption
    <3> QED BY <2>2, <3>1, <3>2, <3>3, <3>4, <3>5 DEF Crypt!Describe
  <2> QED BY <2>1, <2>2
<1>8. (\A entry \in archive' : RowFields(entry)) /\ Crypt!ArchivedOnce'
  <2>1. CASE UNCHANGED archive BY <2>1 DEF CallsInv, CallsTypes, Crypt!ArchivedOnce
  <2>2. CASE Crypt!RecordDecode(r, resolved, at, loaded) BY <2>2, RecordKeeps
  <2> QED BY <1>3, <2>1, <2>2
<1>9. \A entry \in archive' : RowFields(entry)' BY <1>6, <1>8 DEF RowFields
<1>10. CallsTypes' BY <1>6, <1>9 DEF CallsInv, CallsTypes
<1>11. Remembered' BY <1>6, <1>7 DEF Remembered
<1> QED BY <1>8, <1>10, <1>11 DEF CallsInv

\* A call, late or not, a loaded key, a restart and the clock keep the invariant.
LEMMA CallsStep == CallsInv /\ [Crypt!Next]_crypt => CallsInv'
<1> SUFFICES ASSUME CallsInv, [Crypt!Next]_crypt PROVE CallsInv' OBVIOUS
<1>1. CASE UNCHANGED <<net, identity, heard, archive, clock>>
  BY <1>1 DEF CallsInv, CallsTypes, Remembered, Crypt!ArchivedOnce, RowFields, Crypt!Ids
<1>2. ASSUME NEW r \in Radios, NEW ids \in Crypt!Ids, Crypt!Decode(r, ids) PROVE CallsInv'
  BY <1>2, DecodeRemembers
<1>3. CASE Crypt!Clear
  <2>1. PICK cleared \in SUBSET Radios :
          /\ identity' = [r \in Radios |-> IF r \in cleared THEN None ELSE identity[r]]
          /\ heard' = [r \in Radios |-> IF r \in cleared THEN None ELSE heard[r]]
    BY <1>3 DEF Crypt!Clear
  <2>2. archive' = {} /\ net' = net /\ clock' = clock BY <1>3 DEF Crypt!Clear
  <2>3. CallsTypes' BY <2>1, <2>2 DEF CallsInv, CallsTypes, Crypt!Ids
  <2>4. Remembered' BY <2>1, <2>2 DEF CallsInv, Remembered
  <2>5. Crypt!ArchivedOnce' BY <2>2 DEF Crypt!ArchivedOnce
  <2> QED BY <2>3, <2>4, <2>5 DEF CallsInv
<1>4. CASE Crypt!Purge
  <2>1. archive' \subseteq archive /\ UNCHANGED <<net, identity, heard, clock>> BY <1>4 DEF Crypt!Purge
  <2> QED BY <2>1 DEF CallsInv, CallsTypes, Remembered, Crypt!ArchivedOnce, RowFields, Crypt!Ids
<1>5. CASE Crypt!Tick
  <2>1. clock' = clock + 1 /\ UNCHANGED <<net, identity, heard, archive>> BY <1>5 DEF Crypt!Tick
  <2>2. \A entry \in archive : RowFields(entry)' BY <2>1 DEF CallsInv, CallsTypes, RowFields
  <2>3. CallsTypes' BY <2>1, <2>2 DEF CallsInv, CallsTypes, Crypt!Ids
  <2> QED BY <2>1, <2>3 DEF CallsInv, Remembered, Crypt!ArchivedOnce
<1>6. CASE UNCHANGED crypt BY <1>1, <1>6 DEF crypt
<1>7. CASE Crypt!Next
  BY <1>1, <1>2, <1>3, <1>4, <1>5, <1>7
     DEF Crypt!Next, Crypt!AddHeardKey, Crypt!DeleteKey, Crypt!DecoderRestart
<1> QED BY <1>6, <1>7

--------------------------------------------------------------------------------
(* The console *)

\* The credentials keep their invariant beside every component, and the component that makes the
\* steps keeps its own.
ConsoleInv ==
  /\ part = "hubs" => HubsInv
  /\ part = "alerts" => AlertsInv
  /\ part = "files" => FilesInv
  /\ part = "kiss" => KissInv
  /\ part = "feeds" => FeedsInv
  /\ part = "calls" => CallsInv

\* Each component starts as it does on its own.
LEMMA ConsoleStarts == ConsoleInit => Init /\ ConsoleInv
<1> SUFFICES ASSUME ConsoleInit PROVE Init /\ ConsoleInv OBVIOUS
<1>1. /\ part = "hubs" => Hubs!Init
      /\ part = "alerts" => Board!Init
      /\ part = "files" => Disk!Init
      /\ part = "kiss" => Kiss!Init
      /\ part = "feeds" => Feeds!Init
      /\ part = "calls" => Crypt!Init
      /\ Init
  BY Zenon DEF ConsoleInit
<1> QED
  BY <1>1, HubsInit, AlertsInit, FilesInit, KissInit, FeedsInit, CallsInit, Zenon DEF ConsoleInv

\* A step of the console is a step of the component it considers, and nothing for the others.
LEMMA ConsoleMoves ==
  ASSUME [ConsoleNext]_ConsoleVars
  PROVE  /\ part' = part /\ [Next]_vars
         /\ part = "hubs" => [Hubs!Next]_hubs
         /\ part = "alerts" => [Board!Next]_board
         /\ part = "files" => [Disk!Next]_disk
         /\ part = "kiss" => [Kiss!Next]_kiss
         /\ part = "feeds" => [Feeds!Next]_feeds
         /\ part = "calls" => [Crypt!Next]_crypt
<1>1. CASE ConsoleNext BY <1>1, SMT DEF ConsoleNext
<1>2. CASE UNCHANGED ConsoleVars BY <1>2, SMT DEF ConsoleVars
<1> QED BY <1>1, <1>2

\* So it keeps the invariant of that component.
LEMMA ConsoleStep == ConsoleInv /\ [ConsoleNext]_ConsoleVars => ConsoleInv'
<1> SUFFICES ASSUME ConsoleInv, [ConsoleNext]_ConsoleVars PROVE ConsoleInv' OBVIOUS
<1>1. /\ part' = part
      /\ part = "hubs" => [Hubs!Next]_hubs
      /\ part = "alerts" => [Board!Next]_board
      /\ part = "files" => [Disk!Next]_disk
      /\ part = "kiss" => [Kiss!Next]_kiss
      /\ part = "feeds" => [Feeds!Next]_feeds
      /\ part = "calls" => [Crypt!Next]_crypt
  BY ConsoleMoves, Zenon
<1>2. part = "hubs" => HubsInv' BY <1>1, HubsStep, Zenon DEF ConsoleInv
<1>3. part = "alerts" => AlertsInv' BY <1>1, AlertsStep, Zenon DEF ConsoleInv
<1>4. part = "files" => FilesInv' BY <1>1, FilesStep, Zenon DEF ConsoleInv
<1>5. part = "kiss" => KissInv' BY <1>1, KissStep, Zenon DEF ConsoleInv
<1>6. part = "feeds" => FeedsInv' BY <1>1, FeedsStep, Zenon DEF ConsoleInv
<1>7. part = "calls" => CallsInv' BY <1>1, CallsStep, Zenon DEF ConsoleInv
<1> QED BY <1>1, <1>2, <1>3, <1>4, <1>5, <1>6, <1>7, Zenon DEF ConsoleInv

\* The invariant of the component holds in every behaviour of the console.
LEMMA ConsoleInvariant == ConsoleSpec => []ConsoleInv
<1>1. ConsoleInit => ConsoleInv BY ConsoleStarts
<1>2. ConsoleInv /\ [ConsoleNext]_ConsoleVars => ConsoleInv' BY ConsoleStep
<1> QED BY <1>1, <1>2, PTL DEF ConsoleSpec

\* Every behaviour of the console is one of the credentials, so that what is proved of these
\* (Shown, Real, Cleaned) holds of the console.
THEOREM ServesCredentials == ConsoleSpec => Spec
<1>1. ConsoleInit => Init BY ConsoleStarts
<1>2. [ConsoleNext]_ConsoleVars => [Next]_vars BY ConsoleMoves
<1> QED BY <1>1, <1>2, PTL DEF ConsoleSpec, Spec

\* Whoever publishes, subscribes and leaves meanwhile: what the event loop publishes is shown,
\* queued or on its way to every page that has subscribed, once and in order, whatever threads
\* publish beside it; but for an event during whose walk a thread took a subscriber away
\* (EventBus.publish).
THEOREM EventsArrive == ConsoleSpec => []LoopEventsArrive
<1>1. ConsoleInv => LoopEventsArrive BY HubsImply DEF ConsoleInv, LoopEventsArrive
<1> QED BY <1>1, ConsoleInvariant, PTL

\* However slow a page is and however short its queue: the frames it has or is sent are in the
\* order of the audio, the newest among them, and none of an encrypted call has sound
\* (AudioHub.publish).
THEOREM FramesFresh == ConsoleSpec => []FreshFrames
<1>1. ConsoleInv => FreshFrames BY HubsImply DEF ConsoleInv, FreshFrames
<1> QED BY <1>1, ConsoleInvariant, PTL

\* An alert that was acknowledged, and whose condition has lasted since, is not listed before
\* its time is over, whichever pages ask meanwhile; but for the idle waterfall (AlertStore).
THEOREM AckLasts == ConsoleSpec => []AckHolds
<1>1. ConsoleInv => AckHolds BY DEF ConsoleInv, AlertsInv, AckHolds
<1> QED BY <1>1, ConsoleInvariant, PTL

\* A condition is not announced twice while it lasts, but for the idle waterfall
\* (AlertStore.note_seen).
THEOREM AnnouncedOnce == ConsoleSpec => []ToldOnce
<1>1. ConsoleInv => ToldOnce BY DEF ConsoleInv, AlertsInv, ToldOnce
<1> QED BY <1>1, ConsoleInvariant, PTL

\* No save of the settings and no migration, in the event loop or a thread, changes the key of the
\* sessions, as long as no write was cut off, no two overlapped, and the event loop never had to
\* write what it made of an empty file (_ensure_secret_key, update_settings).
THEOREM SessionsKept == ConsoleSpec => []SessionsLast
<1>1. ConsoleInv => SessionsLast BY FilesImply DEF ConsoleInv, SessionsLast
<1> QED BY <1>1, ConsoleInvariant, PTL

\* What the operator saved is what is loaded once nothing is being written
\* (update_settings, load_settings_file).
THEOREM SavedKept == ConsoleSpec => []SavedIsLoaded
<1>1. ConsoleInv => SavedIsLoaded BY FilesImply DEF ConsoleInv, SavedIsLoaded
<1> QED BY <1>1, ConsoleInvariant, PTL

\* Frames of any number and length, of whatever bytes, read to their end or broken off: what one
\* connection brought is handed on as it was sent, once, in order, and only what a connection
\* ended in is missing (KissDecoder.feed).
THEOREM FramesKept == ConsoleSpec => []FramesWhole
<1>1. ConsoleInv => FramesWhole BY KissImply DEF ConsoleInv, FramesWhole
<1> QED BY <1>1, ConsoleInvariant, PTL

\* However many threads of earlier connections are still reading: no packet is ingested twice, nor
\* after a later one, but between one the loop left behind and its successors (_is_loop).
THEOREM PacketsInOrder == ConsoleSpec => []IngestedInOrder
<1>1. FeedsInv => Feeds!IngestedInOrder BY DEF FeedsInv, InLine, Feeds!IngestedInOrder
<1>2. ConsoleInv => IngestedInOrder BY <1>1 DEF ConsoleInv, IngestedInOrder
<1> QED BY <1>2, ConsoleInvariant, PTL

\* For every algorithm of the registry and every id of a key: the keyset the pages show of a
\* radio's last call, and the key stored through its link, have the ids of that call
\* (collect_heard_keysets, add_heard_key).
THEOREM KeysetFilled == ConsoleSpec => []KeysetFills
<1>1. ConsoleInv => KeysetFills BY CallsImply DEF ConsoleInv, KeysetFills
<1> QED BY <1>1, ConsoleInvariant, PTL

\* In whatever order the calls arrive: two rows of one radio and one key are further apart than the
\* window of deduplication (record_decode).
THEOREM CallsOnce == ConsoleSpec => []ArchivedOnce
<1>1. ConsoleInv => ArchivedOnce BY DEF ConsoleInv, CallsInv, ArchivedOnce
<1> QED BY <1>1, ConsoleInvariant, PTL
================================================================================
