------------------------------ MODULE Credentials -------------------------------
(***************************************************************************)
(* The client certificate of one TAK server: enrolling for it over Marti   *)
(* TLS, importing it from a Portal zip or a PKCS#12 file, and deleting the *)
(* server (gateway/tak/enrollment.py and the /tak pages).  Files under     *)
(* secrets/<server> and the row that names them are written by requests    *)
(* that interleave where they await; replacing the manager (TakRegistry)   *)
(* is one step here.  A certificate and its key have the name of the       *)
(* enrollment or the upload they came with.                                *)
(***************************************************************************)
EXTENDS Naturals, FiniteSets

CONSTANTS
  Requests,  \* requests handled at a time
  Materials, \* bound: certificates with their keys
  NoFile, Blank, NoRow, NoManager

ASSUME MaterialAssumption ==
  {NoFile, Blank, NoRow} \cap Materials = {} /\ Blank \notin {NoFile, NoRow}

VARIABLES
  row,      \* the certificate the page shows (certificate_*): NoFile until the row names the two
            \* files (client_cert_path), Blank when it names them and shows none; NoRow when deleted
  pem, key, \* client.pem and client.key, the material they came with
  manager,  \* "dry": counts reports as sent; "tls": connects with the two files
  pc,       \* request -> what it waits for
  got,      \* request -> the material it has stored
  mixed,    \* history: parts of two materials, since an import or a commit that failed, a PKCS#12
            \* without a key or a certificate, or an enrollment that was overtaken or cut off
  failed,   \* history: a request that failed had written files, and no manager was made since
  left      \* history: a deletion overlapped an enrollment or was cut off

files == <<pem, key>>
vars == <<row, files, manager, pc, got, mixed, failed, left>>

\* tak_add: a manager without certificates runs dry
Init ==
  /\ row = NoFile /\ pem = NoFile /\ key = NoFile /\ manager = "dry"
  /\ pc = [r \in Requests |-> "idle"] /\ got = [r \in Requests |-> NoFile]
  /\ mixed = FALSE /\ failed = FALSE /\ left = FALSE

Go(r, step) == pc' = [pc EXCEPT ![r] = step]
Fresh == Materials \ ({row, pem, key} \cup {got[r] : r \in Requests})
Storing == {r \in Requests : pc[r] = "closing"}
Enrolling == {r \in Requests : pc[r] \in {"config", "sign", "signV1", "closing"}}

\* Mutant: the manager is left as it is.
NotRestarted == UNCHANGED manager

\* tak_runtime.restart: the manager is made anew from the row and the files (_manager_for)
RestartManager ==
  manager' = IF row' # NoFile /\ pem' # NoFile /\ key' # NoFile THEN "tls" ELSE "dry"

--------------------------------------------------------------------------------
(* enroll_client: GET tls/config, POST signClient/v2, POST signClient.     *)

Enroll(r) ==
  /\ pc[r] = "idle" /\ row # NoRow /\ Go(r, "config")
  /\ UNCHANGED <<row, files, manager, got, mixed, failed, left>>

\* an error status, no answer within 45 s, or an answer that cannot be read
EnrollFails(r) ==
  /\ pc[r] \in {"config", "sign", "signV1"} /\ Go(r, "idle")
  /\ UNCHANGED <<row, files, manager, got, mixed, failed, left>>

Config(r) ==
  /\ pc[r] = "config" /\ Go(r, "sign")
  /\ UNCHANGED <<row, files, manager, got, mixed, failed, left>>

\* v2 answers with a status of 400 or more
SignV1(r) ==
  /\ pc[r] = "sign" /\ Go(r, "signV1")
  /\ UNCHANGED <<row, files, manager, got, mixed, failed, left>>

\* what the server may answer, and what _decode_sign_response makes a certificate of: JSON
\* and XML that have one, or else a PKCS#12 blob
Answers == [form: {"json", "xml", "p12", "other"}, cert: BOOLEAN]
Decodes(answer) == answer.cert /\ answer.form \in {"json", "xml", "p12"}

\* _store_enrolled_material; then the client is closed, which waits
Store(r) ==
  /\ pc[r] \in {"sign", "signV1"}
  /\ \E answer \in Answers : Decodes(answer)
  /\ \E m \in Fresh : pem' = m /\ key' = m /\ got' = [got EXCEPT ![r] = m]
  /\ Go(r, "closing")
  /\ UNCHANGED <<row, manager, mixed, failed, left>>

\* the commit raises, or what comes before it: row and manager stay as they are, and so do the
\* files that were written
Fails == mixed' = TRUE /\ failed' = TRUE /\ UNCHANGED <<row, manager>>

\* tak_enroll after the wait: the row shows what this request has stored, whatever another
\* one has put there meanwhile
StoreCommit(r) ==
  /\ pc[r] = "closing" /\ row # NoRow
  /\ row' = got[r] /\ mixed' = (got[r] # pem \/ pem # key \/ Storing # {r})
  /\ got' = [got EXCEPT ![r] = NoFile] /\ Go(r, "idle")
  /\ UNCHANGED <<files, left>> /\ RestartManager /\ failed' = FALSE

\* a database that is locked or full, which the handler meets a second time
StoreFails(r) ==
  /\ pc[r] = "closing" /\ row # NoRow /\ Fails
  /\ got' = [got EXCEPT ![r] = NoFile] /\ Go(r, "idle")
  /\ UNCHANGED <<files, left>>

\* the row is gone: the commit raises, the files stay
StoreOrphaned(r) ==
  /\ pc[r] = "closing" /\ row = NoRow
  /\ got' = [got EXCEPT ![r] = NoFile] /\ Go(r, "idle")
  /\ UNCHANGED <<row, files, manager, mixed, failed, left>>

--------------------------------------------------------------------------------
(* Imports: one step each.                                                 *)

\* normalize_private_key_pem: a password for a plain key is as wrong as none for an encrypted one
KeyLoads(upload) == upload.encrypted = upload.password

\* what import_integration_cert_zip looks for, and takes; readable: a certificate that
\* parse_certificate_meta can read
Uploads == [cert: BOOLEAN, key: BOOLEAN, p12: BOOLEAN, encrypted: BOOLEAN, password: BOOLEAN,
            readable: BOOLEAN]
Route(upload) ==
  IF upload.cert /\ upload.key THEN "pair" ELSE IF upload.p12 THEN "p12" ELSE "refused"

Written(m, certToo, keyToo) ==
  /\ pem' = IF certToo THEN m ELSE pem
  /\ key' = IF keyToo THEN m ELSE key

\* the row and a new manager: without a certificate the columns of the page are emptied
Imported(m, certToo, keyToo) ==
  /\ row' = IF certToo THEN m ELSE Blank
  /\ mixed' = (~certToo \/ ~keyToo \/ Storing # {}) /\ failed' = FALSE
  /\ RestartManager

\* Mutant: the key is read, and never written.
ImportPairCertOnly(m, upload) ==
  \/ KeyLoads(upload) /\ upload.readable /\ Written(m, TRUE, FALSE) /\ Imported(m, TRUE, TRUE)
  \/ KeyLoads(upload) /\ Written(m, TRUE, FALSE) /\ Fails
  \/ ~KeyLoads(upload) /\ Written(m, TRUE, FALSE) /\ Fails

\* import_pem_pair: the certificate is written before the key is read, and both before the
\* certificate is: what raises leaves the new file or files beside the old row
ImportPair(m, upload) ==
  \/ KeyLoads(upload) /\ upload.readable /\ Written(m, TRUE, TRUE) /\ Imported(m, TRUE, TRUE)
  \/ KeyLoads(upload) /\ Written(m, TRUE, TRUE) /\ Fails
  \/ ~KeyLoads(upload) /\ Written(m, TRUE, FALSE) /\ Fails

\* import_pkcs12: nothing that is read back is written before the file is read; one without
\* a key or a certificate replaces the other only
ImportP12(m, upload) ==
  \/ /\ KeyLoads(upload)
     /\ \E certToo, keyToo \in BOOLEAN :
          Written(m, certToo, keyToo) /\ (Imported(m, certToo, keyToo) \/ Fails)
  \/ ~KeyLoads(upload) /\ UNCHANGED <<row, files, manager, mixed, failed>>

\* tak_import_portal_zip, tak_import_p12
Import ==
  /\ row # NoRow
  /\ \E m \in Fresh, upload \in Uploads :
       \/ Route(upload) = "pair" /\ ImportPair(m, upload)
       \/ Route(upload) = "p12" /\ ImportP12(m, upload)
  /\ UNCHANGED <<pc, got, left>>

--------------------------------------------------------------------------------
\* tak_profile and the other pages that save a server
Save ==
  /\ row # NoRow /\ UNCHANGED <<row, files, pc, got, mixed, left>>
  /\ RestartManager /\ failed' = FALSE

\* tak_delete: the row goes and its manager is told to stop, which waits
Delete(r) ==
  /\ pc[r] = "idle" /\ row # NoRow
  /\ row' = NoRow /\ manager' = NoManager /\ Go(r, "delete")
  /\ left' = (Enrolling # {})
  /\ UNCHANGED <<files, got, mixed, failed>>

\* and then its files
DeleteFiles(r) ==
  /\ pc[r] = "delete" /\ pem' = NoFile /\ key' = NoFile /\ Go(r, "idle")
  /\ UNCHANGED <<row, manager, got, mixed, failed, left>>

\* the process ends, and starts what the row says
Crash ==
  /\ \E r \in Requests : pc[r] # "idle"
  /\ pc' = [r \in Requests |-> "idle"] /\ got' = [r \in Requests |-> NoFile]
  /\ mixed' = (mixed \/ Storing # {}) /\ left' = (left \/ \E r \in Requests : pc[r] = "delete")
  /\ UNCHANGED <<row, files>> /\ failed' = FALSE
  /\ IF row = NoRow THEN manager' = NoManager ELSE RestartManager

Next ==
  \/ \E r \in Requests :
       \/ Enroll(r) \/ EnrollFails(r) \/ Config(r) \/ SignV1(r) \/ Store(r) \/ StoreCommit(r)
       \/ StoreFails(r) \/ StoreOrphaned(r) \/ Delete(r) \/ DeleteFiles(r)
  \/ Import \/ Save \/ Crash

Spec == Init /\ [][Next]_vars

--------------------------------------------------------------------------------
TypeOK ==
  /\ row \in Materials \cup {NoFile, Blank, NoRow}
  /\ pem \in Materials \cup {NoFile} /\ key \in Materials \cup {NoFile}
  /\ manager \in {"dry", "tls", NoManager}
  /\ pc \in [Requests -> {"idle", "config", "sign", "signV1", "closing", "delete"}]
  /\ got \in [Requests -> Materials \cup {NoFile}]
  /\ mixed \in BOOLEAN /\ failed \in BOOLEAN /\ left \in BOOLEAN

\* The certificate a server connects with has its own key, and is the one the page shows,
\* while no request is between its files and its row: unless an import or a commit failed half
\* way, a PKCS#12 file had no key or no certificate, or an enrollment was overtaken by another
\* request or cut off.
ShownIsUsed ==
  row # NoRow /\ ~mixed => pem = key /\ (Storing = {} => row = pem)

\* A server whose row names a certificate and a key that are there never goes on counting
\* reports as sent: every way to get them replaces the manager that tak_add has started dry,
\* unless the request that wrote the missing one failed.
EnrolledIsReal ==
  row \notin {NoRow, NoFile} /\ pem # NoFile /\ key # NoFile /\ Storing = {} /\ ~failed
    => manager = "tls"

\* A deleted server leaves no key material behind, unless it was deleted during an enrollment
\* or the process ended in between.
NothingLeft ==
  row = NoRow /\ ~left => (pem = NoFile /\ key = NoFile) \/ \E r \in Requests : pc[r] = "delete"
================================================================================
