------------------------------ MODULE ConsoleFiles ------------------------------
(***************************************************************************)
(* settings.json and auth.json, and the sessions signed with the key that  *)
(* is kept among the settings.  Both files are written in place: they are  *)
(* emptied, and then written.  The event loop serves the requests, one at  *)
(* a time but for their awaits; a thread of the location pipeline reads    *)
(* the settings for every report, and reading them may write them: an old  *)
(* default is migrated.  What is written is what was read, or emptied by   *)
(* the other writer, some time before.                                     *)
(***************************************************************************)
EXTENDS Naturals

CONSTANTS
  Browsers,
  Keys,       \* bound: the secret keys that are ever made
  OldKey,     \* the key of an installation from before the migration
  Passwords,
  Torn,       \* the content of a file that does not parse
  None

Legacy == "120"   \* the stale_seconds that is migrated
Default == "1200" \* DEFAULT_STALE_SECONDS
Stales == {Legacy, Default, "600"}

VARIABLES
  file,     \* settings.json: None, Torn, or its content
  auth,     \* auth.json: None, Torn, or the password
  loop,     \* what the event loop has read or made and is to write, or is writing, or None
  asking,   \* browsers whose session was found good and whose form is awaited
  thread,   \* a thread that has read the settings and is to write them, or None
  mixed,    \* two writers had the file open at once
  cookies,  \* the key each browser's session is signed with
  cut,      \* history: a write of the settings did not end, two overlapped, or the loop read an
            \* empty file and is to write what it made of it
  saved,    \* history: what the operator saved last, None once something else may have won
  used      \* history: keys that were made

writers == <<loop, asking, thread, mixed>>
history == <<cut, saved, used>>
vars == <<file, auth, writers, cookies, history>>

Defaults == [stale |-> Default, title |-> "RadioTAK", marker |-> FALSE, key |-> None]

Init ==
  /\ file \in {None, [Defaults EXCEPT !.stale = Legacy, !.key = OldKey]}
  /\ auth \in IF file = None THEN {None} ELSE Passwords
  /\ loop = None /\ asking = {} /\ thread = None /\ mixed = FALSE
  /\ cookies = [b \in Browsers |-> None]
  /\ cut = FALSE /\ saved = None /\ used = {OldKey}

Whole(f) == f \notin {None, Torn}

\* Mutant: what is migrated are the defaults.
MigratedDefaults(data) ==
  IF ~data.marker /\ data.stale = Legacy THEN [Defaults EXCEPT !.marker = TRUE] ELSE data

\* Mutant: the marker is not looked at.
MigratedAlways(data) ==
  IF data.stale = Legacy THEN [data EXCEPT !.stale = Default, !.marker = TRUE] ELSE data

\* load_settings_file: the old default of 120 s is taken for what nobody chose
Migrated(data) ==
  IF ~data.marker /\ data.stale = Legacy THEN [data EXCEPT !.stale = Default, !.marker = TRUE] ELSE data

\* what a reader gets: a file that cannot be read is taken for an empty one
Load == IF Whole(file) THEN Migrated(file) ELSE Defaults

\* loading is to write: there is no file, or it was migrated
LoadWrites == file = None \/ (Whole(file) /\ Migrated(file) # file)

--------------------------------------------------------------------------------
\* The event loop.

\* What a handler writes: what the load migrated or made, and then what the handler makes of
\* it, if anything; at the end browser gets a cookie, or none does.
Begin(last, operator, browser) ==
  /\ loop = None /\ (LoadWrites \/ last # None)
  /\ loop' = [what |-> "settings", data |-> IF LoadWrites THEN Load ELSE last,
              more |-> IF LoadWrites THEN last ELSE None,
              operator |-> operator, browser |-> browser, open |-> FALSE]
  /\ cut' = (cut \/ file = Torn)

\* write_text: open empties the file, and the content follows
LoopOpen == loop # None /\ loop.what = "settings" /\ loop.open
ThreadOpen == thread # None /\ thread.open

OpenSettings ==
  /\ loop # None /\ loop.what = "settings" /\ ~loop.open
  /\ loop' = [loop EXCEPT !.open = TRUE] /\ file' = Torn
  /\ mixed' = (mixed \/ ThreadOpen)
  /\ UNCHANGED <<auth, asking, thread, cookies, history>>

\* the content is there; of two writers the longer one may leave its end behind
Written(data) == {data} \cup (IF mixed THEN {Torn} ELSE {})

\* save_auth, which empties auth.json too
BeginAuth(password) ==
  loop' = [what |-> "auth", data |-> password] /\ auth' = Torn

EndSettings ==
  /\ LoopOpen /\ file' \in Written(loop.data)
  /\ mixed' = (mixed /\ ThreadOpen) /\ cut' = (cut \/ mixed)
  /\ \/ /\ loop.more # None
        /\ loop' = [loop EXCEPT !.data = loop.more, !.more = None, !.open = FALSE]
        /\ UNCHANGED <<auth, cookies, saved>>
     \/ /\ loop.more = None
        /\ saved' = IF loop.operator THEN (IF thread = None /\ ~mixed THEN loop.data ELSE None) ELSE saved
        /\ cookies' = IF loop.browser = None THEN cookies ELSE [cookies EXCEPT ![loop.browser] = loop.data.key]
        /\ \/ loop' = None /\ UNCHANGED auth
           \/ loop.operator /\ auth \in Passwords /\ \E password \in Passwords : BeginAuth(password)
  /\ UNCHANGED <<asking, thread, used>>

\* any page of the console loads the settings (base_context)
LoopLoads ==
  /\ Begin(None, FALSE, None)
  /\ UNCHANGED <<file, auth, asking, thread, mixed, cookies, saved, used>>

\* _ensure_secret_key, of whatever is asked for first, or of a login
MakeKey(browser) ==
  /\ Load.key = None /\ (browser # None => auth \in Passwords)
  /\ \E key \in Keys \ used :
       Begin([Load EXCEPT !.key = key], FALSE, browser) /\ used' = used \cup {key}
  /\ UNCHANGED <<file, auth, asking, thread, mixed, cookies, saved>>

\* require_auth of a form: a console with a password, and a session of the present key; while
\* auth.json cannot be parsed every request fails
Ask(b) ==
  /\ loop = None /\ auth \in Passwords /\ b \notin asking
  /\ cookies[b] # None /\ Load.key = cookies[b] /\ asking' = asking \cup {b}
  /\ IF LoadWrites THEN Begin(None, FALSE, None) ELSE UNCHANGED <<loop, cut>>
  /\ UNCHANGED <<file, auth, thread, mixed, cookies, saved, used>>

\* settings_save, customization_post, with the form: update_settings on what is loaded now
Save(b) ==
  /\ b \in asking /\ asking' = asking \ {b}
  /\ \E stale \in Stales, title \in {"RadioTAK", "County"} :
       Begin([Load EXCEPT !.stale = stale, !.title = title], TRUE, None)
  /\ UNCHANGED <<file, auth, thread, mixed, cookies, saved, used>>

\* setup_post, while there is no password
SetUp ==
  /\ loop = None /\ auth = None /\ \E password \in Passwords : BeginAuth(password)
  /\ UNCHANGED <<file, asking, thread, mixed, cookies, history>>

EndAuth ==
  /\ loop # None /\ loop.what = "auth" /\ auth' = loop.data /\ loop' = None
  /\ UNCHANGED <<file, asking, thread, mixed, cookies, history>>

\* login_post and the end of setup_post, where there is a key: create_session_token
LogIn(b) ==
  /\ loop = None /\ auth \in Passwords /\ Load.key # None
  /\ IF LoadWrites THEN Begin(None, FALSE, b) /\ UNCHANGED cookies
     ELSE cookies' = [cookies EXCEPT ![b] = Load.key] /\ UNCHANGED <<loop, cut>>
  /\ UNCHANGED <<file, auth, asking, thread, mixed, saved, used>>

LogOut(b) ==
  /\ cookies[b] # None /\ cookies' = [cookies EXCEPT ![b] = None]
  /\ UNCHANGED <<file, auth, writers, history>>

--------------------------------------------------------------------------------
\* A thread of the pipeline, of a console somebody has set up.

ThreadLoads ==
  /\ thread = None /\ auth # None /\ file # None /\ LoadWrites
  /\ thread' = [data |-> Load, open |-> FALSE]
  /\ UNCHANGED <<file, auth, loop, asking, mixed, cookies, history>>

ThreadOpens ==
  /\ thread # None /\ ~thread.open /\ thread' = [thread EXCEPT !.open = TRUE] /\ file' = Torn
  /\ mixed' = (mixed \/ LoopOpen)
  /\ saved' = None /\ UNCHANGED <<auth, loop, asking, cookies, cut, used>>

ThreadWrites ==
  /\ ThreadOpen /\ thread' = None
  /\ file' \in Written(thread.data)
  /\ mixed' = (mixed /\ LoopOpen) /\ cut' = (cut \/ mixed)
  /\ UNCHANGED <<auth, loop, asking, cookies, saved, used>>

\* the process ends, in the middle of a write or not, and is started again
Crash ==
  /\ loop' = None /\ asking' = {} /\ thread' = None /\ mixed' = FALSE
  /\ cut' = (cut \/ file = Torn)
  /\ saved' = IF file = Torn THEN None ELSE saved
  /\ writers' # writers /\ UNCHANGED <<file, auth, cookies, used>>

Next ==
  \/ LoopLoads \/ OpenSettings \/ EndSettings \/ SetUp \/ EndAuth
  \/ \E browser \in Browsers \cup {None} : MakeKey(browser)
  \/ \E b \in Browsers : Ask(b) \/ Save(b) \/ LogIn(b) \/ LogOut(b)
  \/ ThreadLoads \/ ThreadOpens \/ ThreadWrites
  \/ Crash

Spec == Init /\ [][Next]_vars

--------------------------------------------------------------------------------
\* As long as no write of the settings was cut off, no two overlapped, and the event loop had
\* not to write what it made of a file that a thread had emptied, a session lasts until its
\* browser logs out: neither a migration, of the loop or of a thread, before or after another
\* write, nor a save of an operator, nor a restart makes another key (_ensure_secret_key,
\* load_settings_file, update_settings).
SessionsLast ==
  ~cut /\ Whole(file) =>
    \A b \in Browsers : cookies[b] # None => file.key = cookies[b]

\* What an operator saved is what is loaded, until the next save, a crash in a write, or the
\* migration by a thread; but of a stale time of 120 s that is chosen before the migration
\* marked the file, the load makes the default (update_settings, load_settings_file).
SavedIsLoaded ==
  saved # None /\ Whole(file) =>
    /\ Load.title = saved.title
    /\ Load.stale = saved.stale \/ (saved.stale = Legacy /\ ~saved.marker)
================================================================================
