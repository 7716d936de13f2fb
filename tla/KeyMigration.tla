------------------------------ MODULE KeyMigration ------------------------------
(***************************************************************************)
(* scripts/migrate-encrypt-keys.ts beside the running application: it reads *)
(* every user once, then encrypts (--execute) or decrypts (--rollback) the   *)
(* two authorization columns user by user, and writes both of them back.    *)
(*                                                                          *)
(* A column is a secret and its form: plain, or encrypted under a key       *)
(* (lib/security).  A new session always has one secret, so a column is     *)
(* never half encrypted.  AES-GCM opens a value under its own key only.     *)
(***************************************************************************)
EXTENDS FiniteSets

CONSTANTS
  User,
  Secret,     \* session keys; bounds the registrations
  Key,        \* values of DATABASE_ENCRYPTION_KEY
  AppKey,     \* the one the application runs with
  Tables,     \* the tables to start from
  None

Mode == {"dry-run", "execute", "rollback"}
Column == {"agent", "transfer"}
Cell == [secret : Secret, form : Key \cup {"plain"}]

VARIABLES
  table,      \* table[u][c]: a cell or None
  mode, key,  \* the running script: its argument and its environment
  seen,       \* what its SELECT returned
  todo,       \* users it has yet to process
  errors,     \* users it reported an error for
  written,    \* history: written[u][c], the secret the application last stored
  raced,      \* history: users the application wrote since the SELECT
  lost        \* history: users whose row was put back to what it was before that

script == <<mode, key, seen, todo, errors>>
vars == <<table, script, written, raced, lost>>

TypeOK ==
  /\ table \in [User -> [Column -> Cell \cup {None}]]
  /\ mode \in Mode \cup {None} /\ key \in Key
  /\ seen \in [User -> [Column -> Cell \cup {None}]]
  /\ {todo, errors, raced, lost} \subseteq SUBSET User
  /\ written \in [User -> [Column -> Secret \cup {None}]]

SecretOf(c) == IF c = None THEN None ELSE c.secret
Secrets(r) == [c \in Column |-> SecretOf(r[c])]
Plain(r) == \E c \in Column : r[c] # None /\ r[c].form = "plain"

(* Rows of before the encryption, and rows of an earlier key, are there.    *)
Init ==
  /\ table \in Tables \cap [User -> [Column -> Cell \cup {None}]]
  /\ written = [u \in User |-> Secrets(table[u])]
  /\ mode = None /\ key = AppKey /\ seen = table
  /\ todo = {} /\ errors = {} /\ raced = {} /\ lost = {}

-------------------------------------------------------------------------------
(* The application. *)

(* A column it writes holds a new encrypted session, or NULL.  (A transfer  *)
(* session is only ever cleared.)                                           *)
Store(u, c, v) ==
  /\ table' = [table EXCEPT ![u][c] = v]
  /\ written' = [written EXCEPT ![u][c] = SecretOf(v)]
  /\ raced' = raced \cup {u}
  /\ UNCHANGED <<script, lost>>

Used == UNION {{written[u][c], SecretOf(table[u][c]), SecretOf(seen[u][c])} :
                  u \in User, c \in Column}

Sealed(s) == [secret |-> s, form |-> AppKey]    \* encryptAuthorization

Register(u) == \E s \in Secret \ Used : Store(u, "agent", Sealed(s))

Revoke(u, c) == table[u][c] # None /\ Store(u, c, None)

-------------------------------------------------------------------------------
(* The script. *)

(* isAuthorizationEncrypted *)
IsEncrypted(v) == v.form # "plain"

Encrypted(v) == IF v # None /\ ~IsEncrypted(v) THEN [secret |-> v.secret, form |-> key] ELSE v
Decrypted(v) == IF v # None /\ IsEncrypted(v) THEN [secret |-> v.secret, form |-> "plain"] ELSE v

(* decrypt throws for a value of another key. *)
Throws(r) == mode = "rollback" /\ \E c \in Column : r[c] # None /\ r[c].form \notin {key, "plain"}

(* Faulty variant of Converted: a user with an encrypted agent key counts   *)
(* as done.                                                                 *)
ConvertedIfAgentPlain(r) ==
  IF r["agent"] # None /\ IsEncrypted(r["agent"]) THEN r
  ELSE [c \in Column |-> IF mode = "rollback" THEN Decrypted(r[c]) ELSE Encrypted(r[c])]

Converted(r) ==
  [c \in Column |-> IF mode = "rollback" THEN Decrypted(r[c]) ELSE Encrypted(r[c])]

Start(m, k) ==
  /\ mode = None
  /\ mode' = m /\ key' = k /\ seen' = table /\ errors' = {} /\ raced' = {}
  /\ todo' = {u \in User : \E c \in Column : table[u][c] # None}
  /\ UNCHANGED <<table, written, lost>>

(* Both columns go back as they were read, converted; nothing is written    *)
(* when neither changed, in a dry run, or when the statement is rejected.   *)
(* An error also stands for an UPDATE that took effect and whose answer was *)
(* lost.                                                                    *)
ProcessUser(u) ==
  /\ mode # None /\ u \in todo /\ todo' = todo \ {u}
  /\ IF ~Throws(seen[u]) /\ Converted(seen[u]) # seen[u] /\ mode # "dry-run"
     THEN \/ /\ table' = [table EXCEPT ![u] = Converted(seen[u])]
             /\ lost' = lost \cup (raced \cap {u}) /\ errors' \in {errors, errors \cup {u}}
          \/ errors' = errors \cup {u} /\ UNCHANGED <<table, lost>>
     ELSE /\ errors' = IF Throws(seen[u]) THEN errors \cup {u} ELSE errors
          /\ UNCHANGED <<table, lost>>
  /\ UNCHANGED <<mode, key, seen, written, raced>>

(* It ends after its summary, and may die before. *)
Exit ==
  /\ mode # None /\ mode' = None
  /\ UNCHANGED <<table, key, seen, todo, errors, written, raced, lost>>

Next ==
  \/ \E u \in User : Register(u) \/ ProcessUser(u) \/ \E c \in Column : Revoke(u, c)
  \/ \E m \in Mode, k \in Key : Start(m, k)
  \/ Exit

Spec == Init /\ [][Next]_vars

-------------------------------------------------------------------------------
(* A row holds the sessions the application stored last, whatever the script *)
(* does and wherever it dies, unless the application wrote it between the    *)
(* script's SELECT and its UPDATE: then an older session, or one that was    *)
(* revoked, is put back.                                                     *)
KeepsSecrets ==
  \A u \in User \ lost :
    /\ Secrets(table[u]) = written[u]
    /\ u \notin raced => Secrets(seen[u]) = written[u]

(* --execute leaves no plain session behind among the users it is done with  *)
(* and reported no error for, also next to an application that stores more.  *)
LeavesNothingPlain ==
  mode = "execute" => \A u \in User \ (todo \cup errors) : ~Plain(table[u])

(* Until the script is done with a user, the row is as it read it, but for   *)
(* what the application has cleared or stored encrypted.                     *)
PendingAsSeen ==
  mode # None => \A u \in todo, c \in Column :
    table[u][c] \in {seen[u][c], None} \/ table[u][c].form # "plain"

MigrationSound == TypeOK /\ KeepsSecrets /\ LeavesNothingPlain /\ PendingAsSeen
===============================================================================
