-------------------------------- MODULE Session --------------------------------
(***************************************************************************)
(* The account of the session and the desktop's notifications:             *)
(* doas_init, doas_check, sys_doas, sys_auth_verify, sys_passwd, setuid    *)
(* and setgid, reboot, and the notification ring of syscall.c.  A hash is  *)
(* the pair of the password and the salt it was made with.  sys_passwd     *)
(* takes no lock: the new salt, the new hash (thousands of rounds later),  *)
(* the file and the flush are separate steps between which other CPUs      *)
(* check passwords and the power may fail.                                 *)
(***************************************************************************)
EXTENDS Integers, Sequences, FiniteSets, FiniteSetsExt

CONSTANTS Task,        \* processes of the session
          Admin,       \* those with elev_allowed
          Passwords,   \* passwords tried and set
          Factory,     \* the default one
          MaxFails,    \* DOAS_MAX_FAILS
          Lockout,     \* DOAS_LOCKOUT_TICKS
          Callers,     \* bound: how many may be inside sys_passwd at a time
          MaxTime,     \* bound: ticks
          MaxBoots,    \* bound: restarts
          Ring,        \* NOTIFY_RING
          MaxNotes     \* bound: notifications

VARIABLES user,      \* g_doas_users[0]: [salt, hash, fails, t0]
          now,       \* pit_ticks
          euid,      \* task -> 0 or 1
          pc,        \* task -> "idle", "salted", "hashed" or "written"
          job,       \* task -> [pw, salt]: the change in progress
          file,      \* /home/yart/.passwd in memory: <<salt, hash>> or << >>
          disk,      \* ... and on the disk
          valid,     \* history: the passwords that may be the current one
          misses,    \* history: the times of the failed comparisons since the
                     \*   last success
          boots,
          ring,      \* g_notify: the cells
          head, tail,
          posted,    \* history: notifications posted
          seen       \* history: those the compositor polled

account == <<user, now, euid, pc, job, file, disk, valid, misses, boots>>
notes == <<ring, head, tail, posted, seen>>
vars == <<account, notes>>

Hash(pw, salt) == <<pw, salt>>
FactorySalt == <<0, "boot">>

Init ==
  /\ user = [salt |-> FactorySalt, hash |-> Hash(Factory, FactorySalt), fails |-> 0, t0 |-> 0]
  /\ now = 0 /\ boots = 0
  /\ euid = [t \in Task |-> 1]
  /\ pc = [t \in Task |-> "idle"]
  /\ job = [t \in Task |-> [pw |-> Factory, salt |-> FactorySalt]]
  /\ file = << >> /\ disk = << >>
  /\ valid = {Factory}
  /\ misses = << >>
  /\ ring = [i \in 0 .. Ring - 1 |-> 0] /\ head = 0 /\ tail = 0
  /\ posted = 0 /\ seen = << >>

-----------------------------------------------------------------------------
(* Faulty variants of the definitions below.                               *)

(* The persisted hash is loaded without its salt. *)
LoadedHashOnly(u, f) == [u EXCEPT !.hash = f[2]]

(* A failure during the lockout starts the count again. *)
LockedBriefly(u) == u.fails > MaxFails /\ now - u.t0 < Lockout

(* A full ring overwrites its oldest cell without moving past it. *)
TailAfterStuck(h, t) == t

-----------------------------------------------------------------------------
(* doas_check.                                                             *)

Locked(u) == u.fails >= MaxFails /\ now - u.t0 < Lockout

Fails(u) == IF u.fails >= MaxFails THEN 0 ELSE u.fails

Accepts(pw) == ~Locked(user) /\ Hash(pw, user.salt) = user.hash

(* The account after a check with pw, and the failures since a success     *)
Checked(pw) ==
  IF Locked(user) THEN user
  ELSE IF Accepts(pw) THEN [user EXCEPT !.fails = 0]
  ELSE [user EXCEPT !.fails = Fails(user) + 1, !.t0 = now]

Missed(pw) ==
  IF Locked(user) THEN misses
  ELSE IF Accepts(pw) THEN << >> ELSE Append(misses, now)

Free(t) == pc[t] = "idle"

Doas(t, pw) ==
  /\ Free(t) /\ euid[t] # 0 /\ t \in Admin
  /\ user' = Checked(pw)
  /\ misses' = Missed(pw)
  /\ euid' = IF Accepts(pw) THEN [euid EXCEPT ![t] = 0] ELSE euid
  /\ UNCHANGED <<now, pc, job, file, disk, valid, boots, notes>>

AuthVerify(t, pw) ==
  /\ Free(t)
  /\ user' = Checked(pw)
  /\ misses' = Missed(pw)
  /\ UNCHANGED <<now, euid, pc, job, file, disk, valid, boots, notes>>

(* setuid and setgid are for root; the session drops its rights            *)
Setuid(t) ==
  /\ Free(t) /\ euid[t] = 0
  /\ euid' = [euid EXCEPT ![t] = 1]
  /\ UNCHANGED <<user, now, pc, job, file, disk, valid, misses, boots, notes>>

-----------------------------------------------------------------------------
(* sys_passwd: the check of the old password, then the salt; the hash,     *)
(* made from the account's salt as it is when hashing begins; the file;    *)
(* the flush.                                                              *)

Passwd(t, old, new) ==
  /\ Free(t) /\ Cardinality({s \in Task : ~Free(s)}) < Callers
  /\ misses' = Missed(old)
  /\ IF ~Accepts(old)
     THEN user' = Checked(old) /\ UNCHANGED <<pc, job, valid>>
     ELSE LET salt == <<now, t>>
          IN  /\ user' = [Checked(old) EXCEPT !.salt = salt]
              /\ job' = [job EXCEPT ![t] = [pw |-> new, salt |-> salt]]
              /\ pc' = [pc EXCEPT ![t] = "salted"]
              /\ valid' = valid \union {new}
  /\ UNCHANGED <<now, euid, file, disk, boots, notes>>

StoreHash(t) ==
  /\ pc[t] = "salted"
  /\ user' = [user EXCEPT !.hash = Hash(job[t].pw, job[t].salt), !.fails = 0, !.t0 = 0]
  /\ misses' = << >>
  /\ pc' = [pc EXCEPT ![t] = "hashed"]
  /\ UNCHANGED <<now, euid, job, file, disk, valid, boots, notes>>

WritePasswd(t) ==
  /\ pc[t] = "hashed"
  /\ file' = <<user.salt, user.hash>>
  /\ pc' = [pc EXCEPT ![t] = "written"]
  /\ UNCHANGED <<user, now, euid, job, disk, valid, misses, boots, notes>>

SyncPasswd(t) ==
  /\ pc[t] = "written"
  /\ disk' = file
  /\ pc' = [pc EXCEPT ![t] = "idle"]
  /\ valid' = {job[t].pw}
  /\ UNCHANGED <<user, now, euid, job, file, misses, boots, notes>>

-----------------------------------------------------------------------------
(* doas_init at boot, after a sys_reboot (which flushes first) or a power  *)
(* failure: the factory account, overridden by the file on the disk.       *)

Loaded(u, f) == [u EXCEPT !.salt = f[1], !.hash = f[2]]

Booted(d) ==
  LET u == [salt |-> FactorySalt, hash |-> Hash(Factory, FactorySalt), fails |-> 0, t0 |-> 0]
  IN  IF d = << >> THEN u ELSE Loaded(u, d)

Restart(d) ==
  /\ boots < MaxBoots
  /\ boots' = boots + 1
  /\ user' = Booted(d) /\ file' = d /\ disk' = d
  /\ now' = 0 /\ misses' = << >>
  /\ euid' = [t \in Task |-> 1]
  /\ pc' = [t \in Task |-> "idle"]
  /\ job' = [t \in Task |-> [pw |-> Factory, salt |-> FactorySalt]]
  /\ ring' = [i \in 0 .. Ring - 1 |-> 0] /\ head' = 0 /\ tail' = 0
  /\ posted' = 0 /\ seen' = << >>
  /\ UNCHANGED valid

Reboot == Restart(file)
PowerFails == Restart(disk)

Tick ==
  /\ now < MaxTime
  /\ now' = now + 1
  /\ UNCHANGED <<user, euid, pc, job, file, disk, valid, misses, boots, notes>>

-----------------------------------------------------------------------------
(* The notification ring: the n-th message posted is the number n.         *)

TailAfter(h, t) == IF (h + 1) % Ring = t THEN (t + 1) % Ring ELSE t

Notify ==
  /\ posted < MaxNotes
  /\ posted' = posted + 1
  /\ tail' = TailAfter(head, tail)
  /\ ring' = [ring EXCEPT ![head] = posted + 1]
  /\ head' = (head + 1) % Ring
  /\ UNCHANGED <<account, seen>>

NotifyPoll ==
  /\ tail # head
  /\ seen' = Append(seen, ring[tail])
  /\ tail' = (tail + 1) % Ring
  /\ UNCHANGED <<account, ring, head, posted>>

AccountNext ==
  \/ \E t \in Task, pw \in Passwords : Doas(t, pw) \/ AuthVerify(t, pw)
  \/ \E t \in Task, old, new \in Passwords : Passwd(t, old, new)
  \/ \E t \in Task : StoreHash(t) \/ WritePasswd(t) \/ SyncPasswd(t) \/ Setuid(t)
  \/ Reboot \/ PowerFails \/ Tick

NotesNext == Notify \/ NotifyPoll

Next == AccountNext \/ NotesNext

Spec == Init /\ [][Next]_vars

-----------------------------------------------------------------------------
(* Properties.                                                             *)

(* Whenever no change is in progress, also after a restart or a power      *)
(* failure in the middle of one, exactly one password opens the account,   *)
(* and it is the last one sys_passwd set or, when the change was cut       *)
(* short, the one before it: salt and hash always belong together.         *)
AccountUsable ==
  (\A t \in Task : Free(t)) =>
     \E pw \in valid : Hash(pw, user.salt) = user.hash

(* doas_check compares at most MaxFails wrong passwords within a lockout   *)
(* period unless a right one comes in between.                             *)
MissesBounded ==
  \A i \in DOMAIN misses :
    Cardinality({j \in DOMAIN misses : misses[j] \in misses[i] .. misses[i] + Lockout - 1})
      <= MaxFails

(* The compositor polls notifications in the order they were posted, none  *)
(* twice, and a full ring drops only its oldest: the ring holds every      *)
(* unpolled one among the Ring - 1 newest.                                 *)
LastSeen == IF seen = << >> THEN 0 ELSE seen[Len(seen)]

NotesInOrder ==
  /\ \A i \in 1 .. Len(seen) - 1 : seen[i] < seen[i + 1]
  /\ {ring[(tail + k) % Ring] : k \in 0 .. ((head - tail) % Ring) - 1}
       = Max({LastSeen + 1, posted - Ring + 2}) .. posted

(* The three together: what the account and the notification ring of the   *)
(* kernel promise to the programs of the session.                          *)
SessionSound == AccountUsable /\ MissesBounded /\ NotesInOrder
=============================================================================
