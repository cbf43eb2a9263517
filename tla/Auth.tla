-------------------------------- MODULE Auth --------------------------------
(***************************************************************************)
(* The user accounts of security/auth.c: the table in memory, the session, *)
(* the login prompt and the permission test.  Calls come one at a time.    *)
(***************************************************************************)
EXTENDS Integers, Sequences, FiniteSets

CONSTANTS
  MAX_USERS, PASS_HASH_LEN,
  ByteBits,       \* bits of a byte, 8 in the code
  Username,       \* names that are not empty and shorter than USERNAME_MAX
  BadName,        \* and one that is empty or too long
  Password,       \* sequences of bytes
  FirstPassword,  \* the passwords of the default accounts
  MaxUid          \* bound: no account beyond this uid is created

Default == {"root", "admin", "user"}
Slot == 0 .. MAX_USERS - 1

ASSUME AuthAssumption ==
  /\ MAX_USERS \in Nat /\ MAX_USERS >= 3
  /\ PASS_HASH_LEN \in Nat \ {0} /\ ByteBits \in Nat /\ MaxUid \in Nat
  /\ Default \subseteq Username /\ BadName \notin Username
  /\ FirstPassword \in [Default -> Password]

VARIABLES
  g_users,        \* the account in each slot, or Free
  g_user_count,
  g_current_uid,  \* the session, -1 before the first
  attempt,        \* of auth_run_login, or Out when it is not running
  locked,         \* halted with interrupts off
  secret,         \* the password last given to each slot's account
  who             \* the name logged in with, NoOne once its account is gone

vars == <<g_users, g_user_count, g_current_uid, attempt, locked, secret, who>>

Free == [active |-> FALSE]
Out == -1
NoOne == "no one"
USER_GID == 100

-----------------------------------------------------------------------------
(* Passwords.  A byte of the hash is the set of its bits, so that ^= is    *)
(* the bits that are set an odd number of times.                           *)

Mixed(password, j) ==
  LET mix(i) == (password[i] + i - 1) % 2^ByteBits
      at == {i \in DOMAIN password : (i - 1) % PASS_HASH_LEN = j}
  IN  {b \in 0 .. ByteBits - 1 :
         Cardinality({i \in at : (mix(i) \div 2^b) % 2 = 1}) % 2 = 1}

(* Mutant: the hash is not zeroed before the password is mixed in. *)
auth_hash_password_Mutant(password, hash_out) ==
  [j \in 0 .. PASS_HASH_LEN - 1 |->
     (Mixed(password, j) \ hash_out[j]) \cup (hash_out[j] \ Mixed(password, j))]

auth_hash_password(password, hash_out) ==
  [j \in 0 .. PASS_HASH_LEN - 1 |-> Mixed(password, j)]

Zero == [j \in 0 .. PASS_HASH_LEN - 1 |-> {}]

-----------------------------------------------------------------------------
(* The table. *)

Live == {s \in Slot : g_users[s].active}
NameOf(s) == g_users[s].username
UidOf(s) == g_users[s].uid

Account(name, password, uid, gid, is_root) ==
  [active |-> TRUE, username |-> name, uid |-> uid, gid |-> gid, is_root |-> is_root,
   password_hash |-> auth_hash_password(password, Zero)]

(* The first slot in which both match, as its uid; -1 when there is none. *)
auth_login(name, password) ==
  LET hits == {s \in Live : /\ NameOf(s) = name
                            /\ g_users[s].password_hash = auth_hash_password(password, Zero)}
  IN  IF hits = {} THEN -1
      ELSE UidOf(CHOOSE s \in hits : \A t \in hits : s <= t)

auth_username(uid) ==
  IF \E s \in Live : UidOf(s) = uid
    THEN NameOf(CHOOSE s \in Live : UidOf(s) = uid /\ \A t \in Live : UidOf(t) = uid => s <= t)
    ELSE NoOne

(* Mutant: numbers accounts by how many there are. *)
IsNextUid_Mutant(uid) == uid = Cardinality(Live)

(* One past the largest uid in use. *)
IsNextUid(uid) ==
  /\ \A s \in Live : UidOf(s) < uid
  /\ uid = 0 \/ \E s \in Live : UidOf(s) = uid - 1

auth_create_user(name, password, is_root) ==
  /\ name \in Username
  /\ \A s \in Live : NameOf(s) # name
  /\ \E slot \in Slot \ Live, uid \in 0 .. MaxUid :
       /\ \A t \in Slot \ Live : slot <= t
       /\ IsNextUid(uid)
       /\ g_users' = [g_users EXCEPT ![slot] =
                        Account(name, password, uid, IF is_root THEN uid ELSE USER_GID, is_root)]
       /\ secret' = [secret EXCEPT ![slot] = password]
  /\ g_user_count' = g_user_count + 1
  /\ UNCHANGED <<g_current_uid, attempt, locked, who>>

auth_delete_user(uid) ==
  /\ uid # 0
  /\ \E s \in Live : UidOf(s) = uid /\ g_users' = [g_users EXCEPT ![s] = Free]
  /\ g_user_count' = IF g_user_count > 0 THEN g_user_count - 1 ELSE g_user_count
  /\ who' = IF uid = g_current_uid THEN NoOne ELSE who
  /\ UNCHANGED <<g_current_uid, attempt, locked, secret>>

auth_change_password(uid, new_password) ==
  /\ \E s \in Live :
       /\ UidOf(s) = uid
       /\ g_users' = [g_users EXCEPT ![s].password_hash = auth_hash_password(new_password, @)]
       /\ secret' = [secret EXCEPT ![s] = new_password]
  /\ UNCHANGED <<g_user_count, g_current_uid, attempt, locked, who>>

-----------------------------------------------------------------------------
(* The session. *)

(* The bit of a mode that decides, for the class the session falls into. *)
Mask(owner, group, is_write) ==
  CASE owner -> IF is_write THEN 128 ELSE 256
    [] group /\ ~ owner -> IF is_write THEN 16 ELSE 32
    [] OTHER -> IF is_write THEN 2 ELSE 4

auth_check_permission(file_uid, file_gid, file_mode, is_write) ==
  /\ g_current_uid >= 0
  /\ \/ g_current_uid = 0
     \/ \E s \in Live :
          /\ UidOf(s) = g_current_uid
          /\ LET mask == Mask(g_current_uid = file_uid, g_users[s].gid = file_gid, is_write)
             IN  (file_mode \div mask) % 2 = 1

(* The shell's login command; the kernel's own call is the initial state. *)
RunLogin ==
  /\ attempt' = 0
  /\ UNCHANGED <<g_users, g_user_count, g_current_uid, locked, secret, who>>

(* Mutant: the slot of the account is taken for its uid. *)
Welcome_Mutant(name, uid) ==
  /\ g_current_uid' = CHOOSE s \in Live : UidOf(s) = uid
  /\ who' = name

Welcome(name, uid) == g_current_uid' = uid /\ who' = name

(* The third wrong answer locks the system. *)
Incorrect ==
  /\ attempt' = IF attempt < 2 THEN attempt + 1 ELSE attempt
  /\ locked' = (attempt = 2)

(* One round of auth_run_login. *)
auth_run_login(name, password) ==
  /\ \/ /\ auth_login(name, password) >= 0
        /\ Welcome(name, auth_login(name, password))
        /\ attempt' = Out
        /\ UNCHANGED locked
     \/ /\ auth_login(name, password) < 0
        /\ Incorrect
        /\ UNCHANGED <<g_current_uid, who>>
  /\ UNCHANGED <<g_users, g_user_count, secret>>

-----------------------------------------------------------------------------

(* auth_init, and the call of auth_run_login at boot. *)
Init ==
  /\ g_users = [s \in Slot |->
       CASE s = 0 -> Account("root", FirstPassword["root"], 0, 0, TRUE)
         [] s = 1 -> Account("admin", FirstPassword["admin"], 1, 1, TRUE)
         [] s = 2 -> Account("user", FirstPassword["user"], 2, USER_GID, FALSE)
         [] OTHER -> Free]
  /\ secret = [s \in Slot |-> CASE s = 1 -> FirstPassword["admin"]
                                [] s = 2 -> FirstPassword["user"]
                                [] OTHER -> FirstPassword["root"]]
  /\ g_user_count = 3
  /\ g_current_uid = -1 /\ attempt = 0 /\ locked = FALSE /\ who = NoOne

Call ==
  \/ \E name \in Username \cup {BadName}, password \in Password, is_root \in BOOLEAN :
       auth_create_user(name, password, is_root)
  \/ \E uid \in 0 .. MaxUid : auth_delete_user(uid)
  \/ \E uid \in 0 .. MaxUid, password \in Password : auth_change_password(uid, password)
  \/ RunLogin

Next ==
  /\ ~ locked
  /\ \/ attempt = Out /\ Call
     \/ /\ attempt # Out
        /\ \E name \in Username \cup {BadName}, password \in Password :
             auth_run_login(name, password)

Spec == Init /\ [][Next]_vars

-----------------------------------------------------------------------------
(* Properties. *)

AccountType ==
  [active : {TRUE}, username : Username, uid : 0 .. MaxUid \cup 0 .. 2, gid : Nat,
   is_root : BOOLEAN, password_hash : [0 .. PASS_HASH_LEN - 1 -> SUBSET (0 .. ByteBits - 1)]]

(* Accounts are well formed, and auth_run_login asks three times at most. *)
TypeOK ==
  /\ g_users \in [Slot -> AccountType \cup {Free}]
  /\ g_user_count \in Int
  /\ g_current_uid \in -1 .. MaxUid \cup 0 .. 2
  /\ attempt \in {Out, 0, 1, 2} /\ locked \in BOOLEAN
  /\ secret \in [Slot -> Password]
  /\ who \in Username \cup {NoOne}

(* However accounts come and go and slots are used again, no two live      *)
(* accounts share a uid or a name, root is there, and g_user_count, which  *)
(* auth_create_user and auth_delete_user step by one, is their number.     *)
AccountsDistinct ==
  /\ \A s, t \in Live : s # t => UidOf(s) # UidOf(t) /\ NameOf(s) # NameOf(t)
  /\ \E s \in Live : UidOf(s) = 0 /\ NameOf(s) = "root"
  /\ g_user_count = Cardinality(Live)

(* The password last given to an account, by auth_init, auth_create_user   *)
(* or auth_change_password, logs that account in and no other, whatever    *)
(* the hash held before.                                                   *)
OwnPasswordLogsIn ==
  \A s \in Live : auth_login(NameOf(s), secret[s]) = UidOf(s)

(* The shell runs only in a session, and the session's uid stands for the  *)
(* account that was logged into for as long as that account exists, across *)
(* later logins, failed ones and changes of the table.                     *)
SessionIsAccount ==
  /\ attempt = Out => g_current_uid >= 0
  /\ who # NoOne => auth_username(g_current_uid) = who

(* auth_check_permission grants what the three rwx digits of a mode say    *)
(* (docs/security.md:106): root everything, a session whose account is     *)
(* gone nothing, any other what the digit of its own class allows, also    *)
(* when a class further down would allow more.                             *)
PermissionByClass ==
  \A file_uid, file_gid \in Nat, mode \in 0 .. 511, is_write \in BOOLEAN :
    LET digit(s) == IF UidOf(s) = file_uid THEN mode \div 64
                    ELSE IF g_users[s].gid = file_gid THEN (mode \div 8) % 8
                    ELSE mode % 8
        need == IF is_write THEN {2, 3, 6, 7} ELSE {4, 5, 6, 7}
        session == {s \in Live : UidOf(s) = g_current_uid}
    IN  auth_check_permission(file_uid, file_gid, mode, is_write)
          <=> (g_current_uid = 0 \/ \E s \in session : digit(s) \in need)
=============================================================================
