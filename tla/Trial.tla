------------------------------- MODULE Trial -------------------------------
(***************************************************************************)
(* Trials: post_trial_handler (src/bin/api/http/handlers/trial.rs) looks    *)
(* the person up in the EmailStore, creates a subscription and its          *)
(* connections, and only then saves the person, in memory and as a line of  *)
(* a file that main loads at the start (src/bin/api/email.rs).  Requests    *)
(* run concurrently; a crash can cut the line being appended, and the next  *)
(* line is then glued to what is left.                                     *)
(*                                                                         *)
(* A person is the HMAC of a user name or an email address.  What add_sub   *)
(* and add_conn do in the two stores is the subject of SubDays and ConnSync *)
(* and the bonus that of Referrals: here they are steps that may fail.     *)
(***************************************************************************)
EXTENDS Naturals, Sequences, FiniteSets

CONSTANTS
  People,     \* identities; those in Emails are email addresses
  Emails,
  Requests,   \* concurrent requests
  Slots,      \* connections to create: environments times protocols
  MaxAsked,   \* bound on the requests that pass the check
  MaxFaults,  \* bound on errors and crashes
  Nobody

ASSUME TrialAssumption ==
  Emails \subseteq People /\ {Slots, MaxAsked, MaxFaults} \subseteq Nat

VARIABLES
  req,      \* req[r]: the request being served
  store,    \* EmailStore::store
  file,     \* the lines of email_file: [who, whole, open]
  granted,  \* granted[p]: trial subscriptions of p in the database
  mail,     \* mail[p]: the background task that mails p
  excused,  \* people whose trial a fault or a race hid from the store (history)
  unsaved,  \* people whose line failed or was spoilt by a cut one (history)
  asked, faults

vars == <<req, store, file, granted, mail, excused, unsaved, asked, faults>>

NoReq == [who |-> Nobody, at |-> "idle", left |-> 0]
Steps == {"idle", "bonus", "sub", "conns", "save", "append"}

Init ==
  /\ req = [r \in Requests |-> NoReq]
  /\ store = {}
  /\ file = <<>>
  /\ granted = [p \in People |-> 0]
  /\ mail = [p \in People |-> 0]
  /\ excused = {} /\ unsaved = {}
  /\ asked = 0 /\ faults = 0

Fault == faults < MaxFaults /\ faults' = faults + 1
Ask == asked < MaxAsked /\ asked' = asked + 1
Goto(r, at) == req' = [req EXCEPT ![r].at = at]
End(r) == req' = [req EXCEPT ![r] = NoReq]

Others(r) == {req[q].who : q \in Requests \ {r}}

-----------------------------------------------------------------------------
(* post_trial_handler.                                                     *)

\* Mutant: the store is not asked.
CheckEmailHmacSkipped(r, p) ==
  /\ req[r] = NoReq /\ Ask
  /\ req' = [req EXCEPT ![r] = [who |-> p, at |-> "bonus", left |-> Slots]]
  /\ excused' = IF p \in Others(r) THEN excused \cup {p} ELSE excused
  /\ UNCHANGED <<store, file, granted, mail, unsaved, faults>>

\* check_email_hmac: whoever is in the store is refused.
CheckEmailHmac(r, p) ==
  /\ req[r] = NoReq /\ Ask
  /\ p \notin store
  /\ req' = [req EXCEPT ![r] = [who |-> p, at |-> "bonus", left |-> Slots]]
  /\ excused' = IF p \in Others(r) THEN excused \cup {p} ELSE excused
  /\ UNCHANGED <<store, file, granted, mail, unsaved, faults>>

CheckEmailHmacRefuses(r, p) ==
  /\ req[r] = NoReq /\ p \in store
  /\ UNCHANGED vars

\* Mutant: saved before anything is created.
BonusSaves(r) ==
  /\ req[r].at = "bonus"
  /\ store' = store \cup {req[r].who}
  /\ \/ Goto(r, "sub") /\ UNCHANGED faults
     \/ End(r) /\ Fault
  /\ UNCHANGED <<file, granted, mail, excused, unsaved, asked>>

\* The code of another subscription must exist, and add_days may fail: 400 or 500.
\* Without a code there is nothing to do.
Bonus(r) ==
  /\ req[r].at = "bonus"
  /\ \/ Goto(r, "sub") /\ UNCHANGED faults
     \/ End(r) /\ Fault
  /\ UNCHANGED <<store, file, granted, mail, excused, unsaved, asked>>

\* add_sub fails before the row is there.
AddSubFails(r) ==
  /\ req[r].at = "sub"
  /\ Fault
  /\ End(r)
  /\ UNCHANGED <<store, file, granted, mail, excused, unsaved, asked>>

\* Only Status::Ok goes on: when a database sync brought the row into the Cache
\* before add_sub did, the answer is an error, and the subscription stays.
AddSub(r) ==
  LET p == req[r].who IN
  /\ req[r].at = "sub"
  /\ granted' = [granted EXCEPT ![p] = @ + 1]
  /\ \/ Goto(r, "conns") /\ UNCHANGED <<faults, excused>>
     \/ End(r) /\ Fault /\ excused' = excused \cup {p}
  /\ UNCHANGED <<store, file, mail, unsaved, asked>>

\* One connection: created, or left out when add_conn fails.
AddConn(r) ==
  /\ req[r].at = "conns" /\ req[r].left > 0
  /\ req' = [req EXCEPT ![r].left = @ - 1]
  /\ UNCHANGED <<store, file, granted, mail, excused, unsaved, faults, asked>>

\* No address for a WireGuard connection: an error, half way through.
AddConnRefused(r) ==
  /\ req[r].at = "conns" /\ req[r].left > 0
  /\ Fault
  /\ End(r)
  /\ excused' = excused \cup {req[r].who}
  /\ UNCHANGED <<store, file, granted, mail, unsaved, asked>>

AddConnDone(r) ==
  /\ req[r].at = "conns" /\ req[r].left = 0
  /\ Goto(r, "save")
  /\ UNCHANGED <<store, file, granted, mail, excused, unsaved, faults, asked>>

-----------------------------------------------------------------------------
(* EmailStore.                                                             *)

\* save_trial_hmac: the map first.
Save(r) ==
  /\ req[r].at = "save"
  /\ store' = store \cup {req[r].who}
  /\ Goto(r, "append")
  /\ UNCHANGED <<file, granted, mail, excused, unsaved, faults, asked>>

\* load_trials: the people of the lines that can be read.
LoadTrials(lines) == {lines[i].who : i \in {j \in 1..Len(lines) : lines[j].whole}}

\* The file after a write: a line after a cut one is read as part of it, and
\* spoils it if it was cut just behind the HMAC.
Appended(line) ==
  IF file = <<>> \/ ~file[Len(file)].open THEN {Append(file, line)}
  ELSE {Append(old, [line EXCEPT !.whole = FALSE]) :
          old \in {file, [file EXCEPT ![Len(file)].whole = FALSE]}}

\* send_email_background, three attempts.
SpawnMail(p) ==
  mail' = IF p \in Emails THEN [mail EXCEPT ![p] = 3] ELSE mail

\* Mutant: the file is opened for writing and not for appending.
AppendLineTruncates(r) ==
  LET p == req[r].who IN
  /\ req[r].at = "append"
  /\ file' = <<[who |-> p, open |-> FALSE, whole |-> TRUE]>>
  /\ SpawnMail(p)
  /\ End(r)
  /\ UNCHANGED <<store, granted, excused, unsaved, faults, asked>>

\* Then the line.
AppendLine(r) ==
  LET p == req[r].who IN
  /\ req[r].at = "append"
  /\ file' \in Appended([who |-> p, open |-> FALSE, whole |-> TRUE])
  /\ unsaved' = unsaved \cup ((LoadTrials(file) \cup {p}) \ LoadTrials(file'))
  /\ SpawnMail(p)
  /\ End(r)
  /\ UNCHANGED <<store, granted, excused, faults, asked>>

\* An error is ignored.
AppendFails(r) ==
  LET p == req[r].who IN
  /\ req[r].at = "append"
  /\ Fault
  /\ unsaved' = unsaved \cup {p}
  /\ SpawnMail(p)
  /\ End(r)
  /\ UNCHANGED <<store, file, granted, excused, asked>>

\* One attempt: delivered, or an error and 500 ms of sleep.
SendMail(p) ==
  /\ mail[p] > 0
  /\ \/ mail' = [mail EXCEPT ![p] = 0]
     \/ mail' = [mail EXCEPT ![p] = @ - 1]
  /\ UNCHANGED <<req, store, file, granted, excused, unsaved, faults, asked>>

\* The API dies, perhaps while it writes a line, and main loads the trials.
\* Whoever has a trial and no line may get another.
Restart ==
  /\ Fault
  /\ \/ UNCHANGED file
     \/ \E r \in Requests, intact \in BOOLEAN :
          /\ req[r].at = "append"
          /\ file' \in Appended([who |-> req[r].who, open |-> TRUE, whole |-> intact])
  /\ store' = LoadTrials(file')
  /\ excused' = excused \cup {p \in People : granted[p] > 0 /\ p \notin store'}
  /\ req' = [r \in Requests |-> NoReq]
  /\ mail' = [p \in People |-> 0]
  /\ UNCHANGED <<granted, unsaved, asked>>

-----------------------------------------------------------------------------
Serve(r) == \/ Bonus(r) \/ AddSub(r) \/ AddSubFails(r)
            \/ AddConn(r) \/ AddConnRefused(r) \/ AddConnDone(r)
            \/ Save(r) \/ AppendLine(r) \/ AppendFails(r)

Next ==
  \/ \E r \in Requests :
       Serve(r) \/ \E p \in People : CheckEmailHmac(r, p) \/ CheckEmailHmacRefuses(r, p)
  \/ \E p \in People : SendMail(p)
  \/ Restart

Spec == Init /\ [][Next]_vars
-----------------------------------------------------------------------------
(* Properties.                                                             *)

\* A person gets one trial: unless two of their requests passed the check
\* together, a request failed after its subscription was created, or a restart
\* found no line for them.
OneTrial == \A p \in People : granted[p] > 1 => p \in excused

\* Nobody is refused a trial, or told of one by mail, who was never given one:
\* the person is saved last, and no cut or glued line names somebody else.
RefusedMeansGranted ==
  \A p \in People : p \in store \/ mail[p] > 0 => granted[p] > 0

\* A restart refuses everybody whom the API refused before, except those whose
\* line is not written yet, failed, or was cut or glued to a cut line.
Remembered ==
  store \subseteq LoadTrials(file) \cup unsaved
               \cup {req[r].who : r \in {q \in Requests : req[q].at = "append"}}
=============================================================================
