-------------------------- MODULE TransferSuiteProofs --------------------------
(***************************************************************************)
(* The parts around a transfer, each for any instance: the migration keeps  *)
(* the sessions, the dialog tells the truth, the wallet in use is the one   *)
(* chosen, and no grant rests on what was lost long ago.  Each part has an  *)
(* inductive invariant of its own; SuiteSpec runs one of them, so that the  *)
(* invariant of the part that runs is an invariant of the suite.            *)
(***************************************************************************)
EXTENDS TransferSuite, SequenceTheorems, TLAPS

-------------------------------------------------------------------------------
(* The migration of the stored sessions. *)

Row == [Keys!Column -> Keys!Cell \cup {None}]

(* Converting a row that it can read keeps its sessions; encrypting leaves    *)
(* none plain.                                                                *)
LEMMA ConvertedRow ==
  ASSUME key \in Key, NEW r \in Row
  PROVE  /\ Keys!Converted(r) \in Row
         /\ Keys!Secrets(Keys!Converted(r)) = Keys!Secrets(r)
         /\ mode = "execute" => ~Keys!Plain(Keys!Converted(r))
<1> DEFINE After(c) == IF mode = "rollback" THEN Keys!Decrypted(r[c]) ELSE Keys!Encrypted(r[c])
<1>1. ASSUME NEW c \in Keys!Column
      PROVE  /\ After(c) \in Keys!Cell \cup {None}
             /\ Keys!SecretOf(After(c)) = Keys!SecretOf(r[c])
             /\ mode = "execute" /\ After(c) # None => After(c).form # "plain"
  <2>1. r[c] \in Keys!Cell \cup {None} BY DEF Row
  <2>2. /\ Keys!Encrypted(r[c]) \in Keys!Cell \cup {None}
        /\ Keys!SecretOf(Keys!Encrypted(r[c])) = Keys!SecretOf(r[c])
        /\ Keys!Encrypted(r[c]) # None => Keys!Encrypted(r[c]).form # "plain"
    BY <2>1, SuiteAssumption DEF Keys!Encrypted, Keys!IsEncrypted, Keys!SecretOf, Keys!Cell
  <2>3. /\ Keys!Decrypted(r[c]) \in Keys!Cell \cup {None}
        /\ Keys!SecretOf(Keys!Decrypted(r[c])) = Keys!SecretOf(r[c])
    BY <2>1, SuiteAssumption DEF Keys!Decrypted, Keys!IsEncrypted, Keys!SecretOf, Keys!Cell
  <2> QED BY <2>2, <2>3
<1>2. Keys!Converted(r) = [c \in Keys!Column |-> After(c)] BY DEF Keys!Converted
<1> HIDE DEF After
<1>3. Keys!Converted(r) \in Row BY <1>1, <1>2 DEF Row
<1>4. \A c \in Keys!Column : Keys!Converted(r)[c] = After(c) BY <1>2
<1>5. Keys!Secrets(Keys!Converted(r)) = Keys!Secrets(r) BY <1>1, <1>4 DEF Keys!Secrets
<1>6. mode = "execute" => ~Keys!Plain(Keys!Converted(r)) BY <1>1, <1>4 DEF Keys!Plain
<1> QED BY <1>3, <1>5, <1>6

(* The script starts with nothing lost.                                       *)
LEMMA MigrationInit == Keys!Init => Keys!MigrationSound
<1> SUFFICES ASSUME Keys!Init PROVE Keys!MigrationSound OBVIOUS
<1>1. Keys!TypeOK
  <2>1. \A u \in Migrated, c \in Keys!Column : Keys!SecretOf(table[u][c]) \in Secret \cup {None}
    BY DEF Keys!Init, Keys!SecretOf, Keys!Cell
  <2> QED BY <2>1, SuiteAssumption DEF Keys!Init, Keys!TypeOK, Keys!Secrets
<1>2. Keys!KeepsSecrets BY DEF Keys!Init, Keys!KeepsSecrets
<1>3. Keys!LeavesNothingPlain /\ Keys!PendingAsSeen
  BY SuiteAssumption DEF Keys!Init, Keys!LeavesNothingPlain, Keys!PendingAsSeen, Keys!Mode
<1> QED BY <1>1, <1>2, <1>3 DEF Keys!MigrationSound

(* What the application stores is encrypted, or NULL.                         *)
LEMMA StoreKeeps ==
  ASSUME Keys!MigrationSound, NEW u \in Migrated, NEW c \in Keys!Column, NEW v,
         v \in [secret : Secret, form : {AppKey}] \cup {None}, Keys!Store(u, c, v)
  PROVE  Keys!MigrationSound'
<1> USE DEF Keys!MigrationSound
<1>1. v \in Keys!Cell \cup {None} /\ Keys!SecretOf(v) \in Secret \cup {None}
      /\ (v # None => v.form # "plain")
  BY SuiteAssumption DEF Keys!Cell, Keys!SecretOf
<1>2. /\ table' = [table EXCEPT ![u][c] = v] /\ written' = [written EXCEPT ![u][c] = Keys!SecretOf(v)]
      /\ raced' = raced \cup {u}
      /\ UNCHANGED <<mode, key, seen, todo, errors, putBack>>
  BY DEF Keys!Store, Keys!script
<1>3. Keys!TypeOK' BY <1>1, <1>2 DEF Keys!TypeOK
<1>4. \A w \in Migrated, d \in Keys!Column :
        /\ table'[w][d] = IF w = u /\ d = c THEN v ELSE table[w][d]
        /\ written'[w][d] = IF w = u /\ d = c THEN Keys!SecretOf(v) ELSE written[w][d]
  BY <1>2 DEF Keys!TypeOK
<1>5. Keys!KeepsSecrets'
  <2> SUFFICES ASSUME NEW w \in Migrated \ putBack
               PROVE  /\ Keys!Secrets(table'[w]) = written'[w]
                      /\ w \notin raced' => Keys!Secrets(seen[w]) = written'[w]
    BY <1>2 DEF Keys!KeepsSecrets
  <2>1. Keys!Secrets(table[w]) = written[w] /\ (w \notin raced => Keys!Secrets(seen[w]) = written[w])
    BY DEF Keys!KeepsSecrets
  <2>2. \A d \in Keys!Column : Keys!SecretOf(table[w][d]) = written[w][d]
    BY <2>1 DEF Keys!Secrets
  <2>3. \A d \in Keys!Column : Keys!SecretOf(table'[w][d]) = written'[w][d]
    BY <1>4, <2>2
  <2>4. written'[w] \in [Keys!Column -> Secret \cup {None}] BY <1>3 DEF Keys!TypeOK
  <2>5. Keys!Secrets(table'[w]) = written'[w] BY <2>3, <2>4 DEF Keys!Secrets
  <2>6. w \notin raced' => w # u /\ w \notin raced BY <1>2
  <2>7. w # u => written'[w] = written[w] BY <1>2 DEF Keys!TypeOK
  <2> QED BY <2>1, <2>5, <2>6, <2>7
<1>6. Keys!LeavesNothingPlain'
  <2> SUFFICES ASSUME mode = "execute", NEW w \in Migrated \ (todo \cup errors), NEW d \in Keys!Column,
                      table'[w][d] # None
               PROVE  table'[w][d].form # "plain"
    BY <1>2 DEF Keys!LeavesNothingPlain, Keys!Plain
  <2> QED BY <1>1, <1>4 DEF Keys!LeavesNothingPlain, Keys!Plain
<1>7. Keys!PendingAsSeen'
  <2> SUFFICES ASSUME mode # None, NEW w \in todo, NEW d \in Keys!Column
               PROVE  table'[w][d] \in {seen[w][d], None} \/ table'[w][d].form # "plain"
    BY <1>2 DEF Keys!PendingAsSeen
  <2> QED BY <1>1, <1>4 DEF Keys!PendingAsSeen, Keys!TypeOK
<1> QED BY <1>3, <1>5, <1>6, <1>7

(* The read of the rows fixes what each user had.                             *)
LEMMA StartKeeps ==
  ASSUME Keys!MigrationSound, NEW m \in Keys!Mode, NEW k \in Key, Keys!Start(m, k)
  PROVE  Keys!MigrationSound'
<1> USE DEF Keys!MigrationSound
<1>1. Keys!TypeOK' BY DEF Keys!Start, Keys!TypeOK
<1>2. Keys!KeepsSecrets' BY DEF Keys!Start, Keys!KeepsSecrets
<1>3. Keys!LeavesNothingPlain'
  BY DEF Keys!Start, Keys!LeavesNothingPlain, Keys!Plain
<1>4. Keys!PendingAsSeen' BY DEF Keys!Start, Keys!PendingAsSeen
<1> QED BY <1>1, <1>2, <1>3, <1>4

(* A user is converted, skipped or reported.                                  *)
LEMMA ProcessKeeps ==
  ASSUME Keys!MigrationSound, NEW u \in Migrated, Keys!ProcessUser(u)
  PROVE  Keys!MigrationSound'
<1> USE DEF Keys!MigrationSound
<1>0. /\ mode # None /\ u \in todo /\ todo' = todo \ {u}
      /\ UNCHANGED <<mode, key, seen, written, raced>>
      /\ key \in Key /\ seen[u] \in Row /\ table \in [Migrated -> Row]
      /\ todo \subseteq Migrated /\ errors \subseteq Migrated /\ putBack \subseteq Migrated /\ raced \subseteq Migrated
  BY DEF Keys!ProcessUser, Keys!TypeOK, Row
<1>1. /\ Keys!Converted(seen[u]) \in Row
      /\ Keys!Secrets(Keys!Converted(seen[u])) = Keys!Secrets(seen[u])
      /\ mode = "execute" => ~Keys!Plain(Keys!Converted(seen[u]))
  BY <1>0, ConvertedRow
<1>2. \/ /\ table' = [table EXCEPT ![u] = Keys!Converted(seen[u])]
         /\ putBack' = putBack \cup (raced \cap {u}) /\ errors' \in {errors, errors \cup {u}}
      \/ table' = table /\ putBack' = putBack /\ errors' \in {errors, errors \cup {u}}
  BY DEF Keys!ProcessUser
<1>3. Keys!TypeOK' BY <1>0, <1>1, <1>2 DEF Keys!TypeOK, Row
<1>4. Keys!KeepsSecrets'
  <2> SUFFICES ASSUME NEW w \in Migrated \ putBack'
               PROVE  /\ Keys!Secrets(table'[w]) = written[w]
                      /\ w \notin raced => Keys!Secrets(seen[w]) = written[w]
    BY <1>0 DEF Keys!KeepsSecrets
  <2>1. w \notin putBack BY <1>2
  <2>2. Keys!Secrets(table[w]) = written[w] /\ (w \notin raced => Keys!Secrets(seen[w]) = written[w])
    BY <2>1 DEF Keys!KeepsSecrets
  <2>3. table'[w] = table[w] \/ (w = u /\ w \notin raced /\ table'[w] = Keys!Converted(seen[u]))
    BY <1>0, <1>2
  <2> QED BY <1>1, <2>2, <2>3
<1>5. Keys!LeavesNothingPlain'
  <2> SUFFICES ASSUME mode = "execute", NEW w \in Migrated \ (todo' \cup errors')
               PROVE  ~Keys!Plain(table'[w])
    BY <1>0 DEF Keys!LeavesNothingPlain
  <2>1. CASE w # u
    <3>1. table'[w] = table[w] /\ w \notin todo \cup errors BY <1>0, <1>2, <2>1
    <3> QED BY <3>1 DEF Keys!LeavesNothingPlain
  <2>2. CASE w = u /\ table' = [table EXCEPT ![u] = Keys!Converted(seen[u])]
    BY <1>0, <1>1, <2>2
  <2>3. CASE w = u /\ table' = table /\ table' # [table EXCEPT ![u] = Keys!Converted(seen[u])]
    <3>1. u \notin errors' BY <2>3
    <3>2. ~Keys!Throws(seen[u]) BY DEF Keys!Throws
    <3>3. mode # "dry-run" OBVIOUS
    <3>4. Keys!Converted(seen[u]) = seen[u] BY <2>3, <3>1, <3>2, <3>3 DEF Keys!ProcessUser
    <3>5. ~Keys!Plain(seen[u]) BY <1>1, <3>4
    <3>6. \A c \in Keys!Column : table[u][c] \in {seen[u][c], None} \/ table[u][c].form # "plain"
      BY <1>0 DEF Keys!PendingAsSeen
    <3> QED BY <2>3, <3>5, <3>6 DEF Keys!Plain
  <2> QED BY <1>2, <2>1, <2>2, <2>3
<1>6. Keys!PendingAsSeen'
  <2> SUFFICES ASSUME NEW w \in todo', NEW c \in Keys!Column
               PROVE  table'[w][c] \in {seen[w][c], None} \/ table'[w][c].form # "plain"
    BY <1>0 DEF Keys!PendingAsSeen
  <2>1. w # u /\ w \in todo BY <1>0
  <2>2. table'[w] = table[w] BY <1>0, <1>2, <2>1
  <2> QED BY <1>0, <2>1, <2>2 DEF Keys!PendingAsSeen
<1> QED BY <1>3, <1>4, <1>5, <1>6

(* Every step of the script and every write beside it.                        *)
LEMMA MigrationStep ==
  ASSUME Keys!MigrationSound, Keys!Next PROVE Keys!MigrationSound'
<1>1. ASSUME NEW u \in Migrated, Keys!Register(u) PROVE Keys!MigrationSound'
  <2>1. PICK s \in Secret : Keys!Store(u, "agent", Keys!Sealed(s)) BY <1>1 DEF Keys!Register
  <2> QED BY <2>1, StoreKeeps DEF Keys!Column, Keys!Sealed
<1>2. ASSUME NEW u \in Migrated, NEW c \in Keys!Column, Keys!Revoke(u, c) PROVE Keys!MigrationSound'
  BY <1>2, StoreKeeps DEF Keys!Revoke
<1>3. ASSUME NEW u \in Migrated, Keys!ProcessUser(u) PROVE Keys!MigrationSound'
  BY <1>3, ProcessKeeps
<1>4. ASSUME NEW m \in Keys!Mode, NEW k \in Key, Keys!Start(m, k) PROVE Keys!MigrationSound'
  BY <1>4, StartKeeps
<1>5. CASE Keys!Exit
  BY <1>5, SuiteAssumption DEF Keys!Exit, Keys!MigrationSound, Keys!TypeOK, Keys!KeepsSecrets,
    Keys!LeavesNothingPlain, Keys!PendingAsSeen, Keys!Mode
<1> QED BY <1>1, <1>2, <1>3, <1>4, <1>5 DEF Keys!Next

-------------------------------------------------------------------------------
(* The dialog that sends. *)

Recipients ==
  [input : Form!Text \cup {None}, address : Addr \cup {None}, resolving : BOOLEAN]

(* Noticing a text completes its address and leaves the text.                *)
LEMMA NoticeKeepsInput ==
  ASSUME NEW r \in Recipients
  PROVE  Form!Noticed(r) \in Recipients /\ Form!Noticed(r).input = r.input
BY DEF Recipients, Form!Noticed, Form!Empty, Form!Text

(* While the dialog is open over a preview, the field does not show.         *)
LEMMA PreviewHidesForm == open /\ preview => Form!View # "form"
BY DEF Form!View

(* A closed dialog has nothing to show.                                       *)
LEMMA FormInit == Form!Init => Form!FormInv
<1> SUFFICES ASSUME Form!Init PROVE Form!FormInv OBVIOUS
<1> USE DEF Form!Init
<1>1. Form!TypeOK BY DEF Form!TypeOK, Form!Empty, Form!Phase
<1>2. Form!LookupCurrent /\ Form!FieldShown BY DEF Form!LookupCurrent, Form!FieldShown
<1>3. Form!HashBacked BY DEF Form!HashBacked
<1>4. Form!CallsAttended BY SuiteAssumption DEF Form!CallsAttended, Form!Flying
<1> QED BY <1>1, <1>2, <1>3, <1>4 DEF Form!FormInv

(* A step that shows something else keeps what the field promises, and the    *)
(* recipient unless the field appears.                                        *)
LEMMA ShowKeeps ==
  ASSUME Form!TypeOK, Form!LookupCurrent, Form!FieldShown,
         NEW r \in Recipients, Form!Show(r), r = recipient \/ Form!View' # "form"
  PROVE  /\ recipient' \in Recipients /\ timer' \in Form!Text \cup {None}
         /\ awaited' \in Form!Text \cup {None} /\ orphans' \subseteq Form!Text
         /\ Form!LookupCurrent' /\ Form!FieldShown'
         /\ Form!View' # "form" => recipient' = r
         /\ Form!View # "form" => orphans' = orphans
<1>1. /\ recipient \in Recipients /\ timer \in Form!Text \cup {None}
      /\ awaited \in Form!Text \cup {None} /\ orphans \subseteq Form!Text
  BY DEF Form!TypeOK, Recipients
<1>2. Form!Noticed(r) \in Recipients /\ Form!Noticed(r).input = r.input BY NoticeKeepsInput
<1>3. r.input \in Form!Text \cup {None} BY DEF Recipients
<1>4. /\ recipient' = IF Form!View # "form" /\ Form!View' = "form" THEN Form!Noticed(r) ELSE r
      /\ timer' = IF Form!View' # "form" THEN None
                  ELSE IF Form!View # "form" THEN r.input ELSE timer
      /\ awaited' = IF Form!View' = "form" THEN awaited ELSE None
      /\ orphans' = IF Form!View' = "form" THEN orphans ELSE orphans \cup ({awaited} \ {None})
  BY DEF Form!Show
<1>5. /\ awaited # None => Form!View = "form" /\ recipient.input \in {awaited, None}
      /\ timer # None => Form!View = "form" /\ recipient.input = timer
  BY DEF Form!LookupCurrent, Form!FieldShown
<1>6. Form!LookupCurrent' BY <1>2, <1>4, <1>5 DEF Form!LookupCurrent
<1>7. Form!FieldShown'
  <2>1. timer' # None => Form!View' = "form" /\ recipient'.input = timer' BY <1>2, <1>4, <1>5
  <2>2. awaited' # None => Form!View' = "form" BY <1>4
  <2> QED BY <2>1, <2>2 DEF Form!FieldShown
<1>8. recipient' \in Recipients BY <1>2, <1>4
<1> QED BY <1>1, <1>3, <1>4, <1>5, <1>6, <1>7, <1>8

(* So does an answer or a text that reaches the reducer.                      *)
LEMMA SetKeeps ==
  ASSUME Form!TypeOK, Form!LookupCurrent, Form!FieldShown,
         NEW r \in Recipients, NEW done \in BOOLEAN, Form!SetRecipient(r, done)
  PROVE  /\ recipient' \in Recipients /\ timer' \in Form!Text \cup {None}
         /\ awaited' \in Form!Text \cup {None}
         /\ Form!LookupCurrent' /\ Form!FieldShown'
<1>1. /\ recipient \in Recipients /\ timer \in Form!Text \cup {None}
      /\ awaited \in Form!Text \cup {None}
  BY DEF Form!TypeOK, Recipients
<1>2. Form!Noticed(r) \in Recipients /\ Form!Noticed(r).input = r.input BY NoticeKeepsInput
<1>3. r.input \in Form!Text \cup {None} BY DEF Recipients
<1>4. Form!View' = Form!View BY DEF Form!SetRecipient, Form!View, Form!Working
<1>5. \/ /\ Form!View = "form" /\ r.input # recipient.input
         /\ recipient' = Form!Noticed(r) /\ timer' = r.input
         /\ awaited' = None \/ (r.input = None /\ awaited' = awaited)
      \/ /\ Form!View # "form" \/ r.input = recipient.input
         /\ recipient' = r /\ timer' = timer /\ awaited' \in {awaited, None}
  BY DEF Form!SetRecipient, Form!AwaitedAfter
<1>6. /\ awaited # None => Form!View = "form" /\ recipient.input \in {awaited, None}
      /\ timer # None => Form!View = "form" /\ recipient.input = timer
  BY DEF Form!LookupCurrent, Form!FieldShown
<1>7. Form!LookupCurrent' BY <1>2, <1>5, <1>6 DEF Form!LookupCurrent
<1>8. Form!FieldShown'
  <2>1. timer' # None => Form!View' = "form" /\ recipient'.input = timer'
    BY <1>2, <1>4, <1>5, <1>6
  <2>2. awaited' # None => Form!View' = "form" BY <1>4, <1>5, <1>6
  <2> QED BY <2>1, <2>2 DEF Form!FieldShown
<1> QED BY <1>1, <1>2, <1>3, <1>5, <1>7, <1>8

(* While nothing strayed, the reducer is not reached during a call or after   *)
(* its success.                                                               *)
LEMMA SetReached ==
  ASSUME Form!FormInv, Form!View = "form" \/ awaited # None \/ orphans # {}, ~strayed
  PROVE  \A c \in Call : call[c].pc \notin Form!Flying /\ c # hash
<1>1. ~strayed => orphans = {} BY DEF Form!FormInv, Form!CallsAttended
<1>2. Form!View = "form" BY <1>1 DEF Form!FormInv, Form!FieldShown
<1>3. ~(open /\ preview) BY <1>2, PreviewHidesForm
<1> QED BY <1>3 DEF Form!FormInv, Form!CallsAttended

(* The recipient changes: by a key, a paste, a name or the timer.             *)
LEMMA SetStep ==
  ASSUME Form!FormInv, NEW r \in Recipients, NEW done \in BOOLEAN, Form!SetRecipient(r, done),
         Form!View = "form" \/ awaited # None \/ orphans # {},
         orphans' \subseteq orphans, UNCHANGED <<call, paid, session>>
  PROVE  Form!FormInv'
<1>1. /\ recipient' \in Recipients /\ timer' \in Form!Text \cup {None}
      /\ awaited' \in Form!Text \cup {None} /\ Form!LookupCurrent' /\ Form!FieldShown'
  BY SetKeeps DEF Form!FormInv
<1>2. UNCHANGED <<preview, phase, hash, open, strayed>> BY DEF Form!SetRecipient
<1>3. Form!TypeOK' BY <1>1, <1>2 DEF Form!FormInv, Form!TypeOK, Recipients
<1>4. Form!HashBacked' BY <1>2 DEF Form!FormInv, Form!HashBacked
<1>5. Form!CallsAttended'
  BY <1>2, SetReached DEF Form!FormInv, Form!CallsAttended
<1> QED BY <1>1, <1>3, <1>4, <1>5 DEF Form!FormInv

(* The dialog's own steps: what is shown changes, the calls do not.           *)
LEMMA ButtonStep ==
  ASSUME Form!FormInv, UNCHANGED <<call, paid, session>>,
         Form!Open \/ Form!Continue \/ Form!Back \/ Form!Close
  PROVE  Form!FormInv'
<1> USE DEF Form!FormInv
<1>1. recipient \in Recipients /\ Form!Empty \in Recipients
  BY DEF Form!TypeOK, Recipients, Form!Empty
<1>2. PICK r \in {recipient, Form!Empty} :
        /\ Form!Show(r) /\ (r = recipient \/ ~open')
  BY DEF Form!Open, Form!Continue, Form!Back, Form!Close
<1>3. r \in Recipients /\ (~open' => Form!View' # "form") BY <1>1 DEF Form!View
<1>4. /\ recipient' \in Recipients /\ timer' \in Form!Text \cup {None}
      /\ awaited' \in Form!Text \cup {None} /\ orphans' \subseteq Form!Text
      /\ Form!LookupCurrent' /\ Form!FieldShown'
      /\ Form!View' # "form" => recipient' = r
      /\ Form!View # "form" => orphans' = orphans
  BY <1>2, <1>3, ShowKeeps
<1>5. /\ open' \in BOOLEAN /\ preview' \in BOOLEAN /\ strayed' \in BOOLEAN
      /\ phase' \in {phase, "idle"} /\ hash' \in {hash, None}
      /\ hash' # None => phase' = phase
  BY DEF Form!Open, Form!Continue, Form!Back, Form!Close, Form!TypeOK, Form!HashBacked
<1>6. Form!TypeOK' BY <1>4, <1>5 DEF Form!TypeOK, Recipients, Form!Phase
<1>7. Form!HashBacked' BY <1>5 DEF Form!HashBacked
<1>8. Form!CallsAttended'
  <2> SUFFICES ASSUME ~strayed'
               PROVE  /\ orphans' = {}
                      /\ \A c \in Call : call[c].pc \in Form!Flying \/ c = hash' =>
                           open' /\ preview' /\ recipient'.address = call[c].to
    BY DEF Form!CallsAttended
  <2>1. ~strayed /\ orphans = {}
    BY DEF Form!Open, Form!Continue, Form!Back, Form!Close, Form!CallsAttended, Form!TypeOK
  <2>2. awaited = None \/ Form!View' = "form"
    <3>1. CASE Form!Open BY <3>1 DEF Form!Open, Form!FieldShown, Form!View
    <3>2. CASE Form!Back BY <3>2 DEF Form!Back, Form!FieldShown
    <3> QED BY <3>1, <3>2 DEF Form!Continue, Form!Close, Form!TypeOK
  <2>3. orphans' = {} BY <1>2, <2>1, <2>2 DEF Form!Show
  <2>4. ASSUME NEW c \in Call, call[c].pc \in Form!Flying \/ c = hash'
        PROVE  open' /\ preview' /\ recipient'.address = call[c].to
    <3>1. c = hash' => hash' = hash /\ c # None BY <1>5, SuiteAssumption
    <3>2. open /\ preview /\ recipient.address = call[c].to
      BY <2>1, <2>4, <3>1 DEF Form!CallsAttended
    <3>3. Form!View # "form" /\ Form!View # "closed" BY <3>2 DEF Form!View, Form!Working
    <3>4. Form!Back \/ Form!Close BY <3>2, <3>3 DEF Form!Open, Form!Continue
    <3>5. call[c].pc \notin Form!Flying
      BY <2>4, <3>4 DEF Form!Back, Form!Close, Form!InFlight, Form!TypeOK
    <3>6. c = hash /\ hash' = hash /\ c # None BY <2>4, <3>1, <3>5
    <3>7. phase # "idle" BY <3>6 DEF Form!HashBacked
    <3> QED BY <3>4, <3>6, <3>7 DEF Form!Back, Form!Close
  <2> QED BY <2>3, <2>4
<1> QED BY <1>4, <1>6, <1>7, <1>8

(* A call begins over the preview, and is paid to the recipient shown there.  *)
LEMMA ConfirmStep ==
  ASSUME Form!FormInv, NEW c \in Call, Form!Confirm(c)
  PROVE  Form!FormInv'
<1> USE DEF Form!FormInv
<1>1. /\ UNCHANGED <<recipient, preview, phase, hash, open, timer, awaited, orphans, strayed>>
      /\ UNCHANGED <<paid, session>> /\ call[c].pc = "unused"
      /\ call' = [call EXCEPT ![c] = [pc |-> "token", to |-> recipient.address]]
      /\ Form!View = "preview"
  BY DEF Form!Confirm, Form!formVars, Form!fieldVars, Form!Payee
<1>2. open /\ preview BY <1>1 DEF Form!View, Form!Working
<1>3. recipient.address \in Addr \cup {None} BY DEF Form!TypeOK
<1>4. Form!TypeOK' BY <1>1, <1>3 DEF Form!TypeOK, Form!Flying
<1>5. Form!LookupCurrent' /\ Form!FieldShown'
  BY <1>1 DEF Form!LookupCurrent, Form!FieldShown, Form!View, Form!Working
<1>6. \A d \in Call : call'[d] = IF d = c THEN [pc |-> "token", to |-> recipient.address] ELSE call[d]
  BY <1>1 DEF Form!TypeOK
<1>7. Form!HashBacked'
  <2>1. \A d \in Call : call'[d].pc = "confirm" => d \in paid BY <1>6 DEF Form!HashBacked
  <2>2. hash # None => hash \in Call /\ hash # c BY <1>1 DEF Form!HashBacked, Form!TypeOK
  <2>3. hash # None => hash \in paid /\ call'[hash].pc = "done" /\ phase # "idle"
    BY <1>6, <2>2 DEF Form!HashBacked
  <2> QED BY <1>1, <2>1, <2>3 DEF Form!HashBacked
<1>8. Form!CallsAttended'
  <2>1. ~strayed => orphans = {} BY DEF Form!CallsAttended
  <2>2. ASSUME ~strayed, NEW d \in Call, call'[d].pc \in Form!Flying \/ d = hash
        PROVE  recipient.address = call'[d].to
    <3>1. CASE d = c BY <1>6, <3>1
    <3>2. CASE d # c BY <1>6, <2>2, <3>2 DEF Form!CallsAttended
    <3> QED BY <3>1, <3>2
  <2> QED BY <1>1, <1>2, <2>1, <2>2 DEF Form!CallsAttended
<1> QED BY <1>4, <1>5, <1>7, <1>8

(* A call goes on: it has paid before it confirms, and succeeds after that.   *)
LEMMA CallStep ==
  ASSUME Form!FormInv, NEW c \in Call, call[c].pc \in Form!Flying,
         NEW pc \in Form!Flying \cup {"done"}, Form!Go(c, pc),
         NEW p \in Form!Phase \ {"idle"}, NEW h \in {hash, c}, Form!Emit(p, h),
         paid \subseteq paid', paid' \subseteq Call,
         pc = "confirm" => c \in paid',
         h # hash => c \in paid' /\ pc = "done",
         session' = session
  PROVE  Form!FormInv'
<1> USE DEF Form!FormInv
<1>1. /\ phase' = p /\ hash' = h /\ UNCHANGED <<preview, open>> /\ Form!Show(recipient)
      /\ strayed' = (strayed \/ (Form!View = "form" /\ awaited # None))
      /\ call' = [call EXCEPT ![c].pc = pc]
  BY DEF Form!Emit, Form!Go
<1>2. /\ recipient' \in Recipients /\ timer' \in Form!Text \cup {None}
      /\ awaited' \in Form!Text \cup {None} /\ orphans' \subseteq Form!Text
      /\ Form!LookupCurrent' /\ Form!FieldShown'
      /\ Form!View' # "form" => recipient' = recipient
      /\ Form!View # "form" => orphans' = orphans
  <2>1. recipient \in Recipients BY DEF Form!TypeOK, Recipients
  <2> QED BY <1>1, <2>1, ShowKeeps
<1>3. /\ \A d \in Call : d # c => call'[d] = call[d]
      /\ call'[c].pc = pc /\ call'[c].to = call[c].to
      /\ call' \in [Call -> [pc : Form!Flying \cup {"unused", "done"}, to : Addr \cup {None}]]
  <2> DEFINE Slots == [pc : Form!Flying \cup {"unused", "done"}, to : Addr \cup {None}]
  <2>1. call \in [Call -> Slots] BY DEF Form!TypeOK
  <2>2. [call[c] EXCEPT !.pc = pc] \in Slots
        /\ [call[c] EXCEPT !.pc = pc].pc = pc /\ [call[c] EXCEPT !.pc = pc].to = call[c].to
    BY <2>1
  <2> HIDE DEF Slots
  <2>3. call' = [call EXCEPT ![c] = [call[c] EXCEPT !.pc = pc]] BY <1>1
  <2>4. call' \in [Call -> Slots] /\ \A d \in Call : d # c => call'[d] = call[d]
    BY <2>1, <2>2, <2>3
  <2>5. call'[c] = [call[c] EXCEPT !.pc = pc] BY <2>1, <2>3
  <2> QED BY <2>2, <2>4, <2>5 DEF Slots
<1>4. Form!TypeOK' BY <1>1, <1>2, <1>3 DEF Form!TypeOK, Recipients
<1>5. hash # None => hash \in Call /\ hash # c
  BY DEF Form!TypeOK, Form!HashBacked, Form!Flying
<1>6. Form!HashBacked'
  <2>1. \A d \in Call : call'[d].pc = "confirm" => d \in paid' BY <1>3 DEF Form!HashBacked
  <2>2. CASE h # hash BY <1>1, <1>3, <2>1, <2>2 DEF Form!HashBacked
  <2>3. CASE h = hash BY <1>1, <1>3, <1>5, <2>1, <2>3 DEF Form!HashBacked
  <2> QED BY <2>2, <2>3
<1>7. Form!CallsAttended'
  <2> SUFFICES ASSUME ~strayed'
               PROVE  /\ orphans' = {}
                      /\ \A d \in Call : call'[d].pc \in Form!Flying \/ d = h =>
                           open /\ preview /\ recipient'.address = call'[d].to
    BY <1>1 DEF Form!CallsAttended
  <2>1. ~strayed BY <1>1 DEF Form!TypeOK
  <2>2. orphans = {} /\ open /\ preview BY <2>1 DEF Form!CallsAttended
  <2>3. Form!View # "form" /\ Form!View' # "form"
    BY <1>1, <2>2 DEF Form!View
  <2>4. \A d \in Call : call'[d].pc \in Form!Flying \/ d = h => call[d].pc \in Form!Flying \/ d = hash
    BY <1>3
  <2> QED BY <1>2, <1>3, <2>1, <2>2, <2>3, <2>4 DEF Form!CallsAttended
<1> QED BY <1>2, <1>4, <1>6, <1>7

(* Every step of the dialog and of its calls.                                 *)
LEMMA FormStep ==
  ASSUME Form!FormInv, Form!Next
  PROVE  Form!FormInv'
<1>1. ASSUME NEW t \in Form!Text \cup {None}, Form!Type(t) PROVE Form!FormInv'
  <2>1. [input |-> t, address |-> None, resolving |-> TRUE] \in Recipients BY DEF Recipients
  <2> QED BY <1>1, <2>1, SetStep DEF Form!Type
<1>2. ASSUME Form!Fire PROVE Form!FormInv'
  <2>1. /\ timer # None /\ awaited' = timer /\ timer' = None
        /\ UNCHANGED <<recipient, preview, phase, hash, open, orphans, strayed, call, paid, session>>
    BY <1>2 DEF Form!Fire
  <2>2. Form!View' = Form!View BY <2>1 DEF Form!View, Form!Working
  <2>3. Form!TypeOK' BY <2>1 DEF Form!FormInv, Form!TypeOK
  <2>4. Form!LookupCurrent' /\ Form!FieldShown'
    BY <2>1, <2>2 DEF Form!FormInv, Form!LookupCurrent, Form!FieldShown
  <2>5. Form!HashBacked' /\ Form!CallsAttended'
    BY <2>1 DEF Form!FormInv, Form!HashBacked, Form!CallsAttended
  <2> QED BY <2>3, <2>4, <2>5 DEF Form!FormInv
<1>3. ASSUME NEW t \in Form!Text, NEW a \in Form!Found(t) PROVE Form!Answered(t, a) \in Recipients
  BY <1>3 DEF Form!Answered, Form!Found, Recipients
<1>4. ASSUME Form!Resolve PROVE Form!FormInv'
  <2>1. awaited \in Form!Text BY <1>4 DEF Form!Resolve, Form!FormInv, Form!TypeOK
  <2>2. PICK a \in Form!Found(awaited) : Form!SetRecipient(Form!Answered(awaited, a), TRUE)
    BY <1>4 DEF Form!Resolve
  <2>3. Form!Answered(awaited, a) \in Recipients BY <1>3, <2>1
  <2> QED BY <1>4, <2>2, <2>3, SetStep DEF Form!Resolve
<1>5. ASSUME NEW t \in Form!Text, Form!ResolveOrphan(t) PROVE Form!FormInv'
  <2>1. PICK a \in Form!Found(t) : Form!SetRecipient(Form!Answered(t, a), FALSE)
    BY <1>5 DEF Form!ResolveOrphan
  <2>2. Form!Answered(t, a) \in Recipients BY <1>3
  <2> QED BY <1>5, <2>1, <2>2, SetStep DEF Form!ResolveOrphan
<1>6. CASE Form!Open \/ Form!Continue \/ Form!Back \/ Form!Close
  <2>1. UNCHANGED <<call, paid, session>>
    BY <1>6 DEF Form!Open, Form!Continue, Form!Back, Form!Close
  <2> QED BY <1>6, <2>1, ButtonStep
<1>7. ASSUME NEW c \in Call,
             Form!AccessToken(c) \/ Form!Status(c) \/ Form!Register(c) \/ Form!Send(c) \/ Form!Succeed(c)
      PROVE  Form!FormInv'
  <2>1. call[c].pc \in Form!Flying
    BY <1>7 DEF Form!AccessToken, Form!Status, Form!Register, Form!Send, Form!Succeed, Form!Flying
  <2>2. paid \subseteq Call /\ (call[c].pc = "confirm" => c \in paid)
    BY DEF Form!FormInv, Form!TypeOK, Form!HashBacked
  <2>3. \E pc \in Form!Flying \cup {"done"} : \E p \in Form!Phase \ {"idle"} : \E h \in {hash, c} :
          /\ Form!Go(c, pc) /\ Form!Emit(p, h)
          /\ paid \subseteq paid' /\ paid' \subseteq Call
          /\ pc = "confirm" => c \in paid'
          /\ h # hash => c \in paid' /\ pc = "done"
    <3> USE <2>2 DEF Form!Flying, Form!Phase, Form!Working, Form!Fails
    <3>1. CASE Form!AccessToken(c) BY <3>1 DEF Form!AccessToken
    <3>2. CASE Form!Status(c) BY <3>2 DEF Form!Status
    <3>3. CASE Form!Register(c) BY <3>3 DEF Form!Register
    <3>4. CASE Form!Send(c) BY <3>4 DEF Form!Send
    <3>5. CASE Form!Succeed(c) BY <3>5 DEF Form!Succeed
    <3> QED BY <1>7, <3>1, <3>2, <3>3, <3>4, <3>5
  <2>4. session' = session
    BY <1>7 DEF Form!AccessToken, Form!Status, Form!Register, Form!Send, Form!Succeed
  <2> QED BY <2>1, <2>3, <2>4, CallStep
<1>8. CASE Form!Revoke \/ Form!Expire
  <2>1. /\ UNCHANGED <<recipient, preview, phase, hash, open, timer, awaited, orphans, strayed>>
        /\ UNCHANGED <<call, paid>> /\ session' \in {"none", "stale"}
    BY <1>8 DEF Form!Revoke, Form!Expire, Form!formVars, Form!fieldVars
  <2>2. Form!TypeOK' BY <2>1 DEF Form!FormInv, Form!TypeOK
  <2>3. Form!View' = Form!View BY <2>1 DEF Form!View, Form!Working
  <2> QED BY <2>1, <2>2, <2>3 DEF Form!FormInv, Form!LookupCurrent, Form!FieldShown,
        Form!HashBacked, Form!CallsAttended
<1> QED BY <1>1, <1>2, <1>4, <1>5, <1>6, <1>7, <1>8, ConfirmStep DEF Form!Next

(* What the screen says follows from the invariant.                           *)
LEMMA PayeeNamed == Form!FormInv => Form!SuccessNamesPayee
<1> SUFFICES ASSUME Form!FormInv, Form!View = "success" PROVE
      hash \in paid /\ (~strayed => recipient.address = call[hash].to)
  BY DEF Form!SuccessNamesPayee
<1>1. hash # None BY DEF Form!View, Form!Working
<1> QED BY <1>1 DEF Form!FormInv, Form!HashBacked, Form!CallsAttended, Form!TypeOK

-------------------------------------------------------------------------------
(* The wallet the browser acts with. *)

(* A list of Privy is a short sequence of its wallets.                        *)
LEMMA ListsAreShort ==
  ASSUME NEW S, NEW q \in Selection!Lists(S)
  PROVE  q \in Seq(S) /\ Len(q) \in 0..2
<1>1. PICK m \in 0..2 : q \in [1..m -> S]
  BY DEF Selection!Lists, Selection!SeqOf
<1> QED BY <1>1, SeqDef

(* Some wallet is the best of those connected.                                *)
LEMMA FallbackConnected ==
  ASSUME eth \in Selection!Lists(Selection!Evm), sol \in Selection!Lists(Wallet \ Selection!Evm)
  PROVE  /\ Selection!Connected \subseteq Wallet
         /\ Selection!Connected # {} => Selection!Fallback \in Selection!Connected
<1> DEFINE cw == Selection!connectedWallets
<1>1. /\ eth \in Seq(Selection!Evm) /\ Len(eth) \in 0..2
      /\ sol \in Seq(Wallet \ Selection!Evm) /\ Len(sol) \in 0..2
  BY ListsAreShort
<1>2. Selection!Evm \subseteq Wallet BY DEF Selection!Evm
<1>3. eth \in Seq(Wallet) /\ sol \in Seq(Wallet) BY <1>1, <1>2
<1>4. cw \in Seq(Wallet) /\ Len(cw) \in 0..4
  <2>1. \A p, q \in Seq(Wallet) : p \o q \in Seq(Wallet) /\ Len(p \o q) = Len(p) + Len(q)
    BY ConcatProperties
  <2>2. cw \in Seq(Wallet) /\ Len(cw) = Len(eth) + Len(sol)
    BY <1>3, <2>1 DEF Selection!connectedWallets
  <2>3. Len(eth) \in 0..2 /\ Len(sol) \in 0..2 BY <1>1
  <2>4. \A m, n \in 0..2 : m + n \in 0..4 OBVIOUS
  <2> HIDE DEF cw
  <2> QED BY <2>2, <2>3, <2>4
<1> HIDE DEF cw
<1>5. Selection!Connected = {cw[i] : i \in 1..Len(cw)}
  BY <1>4 DEF Selection!Connected, Selection!ToSet, cw
<1>6. Selection!Connected \subseteq Wallet BY <1>4, <1>5
<1>7. ASSUME NEW k, \E w \in Selection!Connected : Kind[w] = k
      PROVE  Selection!FirstOf(k) \in Selection!Connected
  <2> DEFINE I == Selection!OfKind(k)
  <2>1. I = {i \in 1..Len(cw) : Kind[cw[i]] = k} BY <1>4 DEF Selection!OfKind, cw
  <2>2. I # {} BY <1>5, <1>7, <2>1
  <2>3. I \subseteq 1..4 BY <1>4, <2>1
  <2> HIDE DEF I
  <2>4. \E i \in I : \A j \in I : i <= j
    <3>1. CASE 1 \in I BY <2>3, <3>1
    <3>2. CASE 1 \notin I /\ 2 \in I BY <2>3, <3>2
    <3>3. CASE 1 \notin I /\ 2 \notin I /\ 3 \in I BY <2>3, <3>3
    <3>4. CASE 1 \notin I /\ 2 \notin I /\ 3 \notin I
      <4>1. \A i \in I : i = 4 BY <2>3, <3>4
      <4> QED BY <2>2, <4>1
    <3> QED BY <3>1, <3>2, <3>3, <3>4
  <2> DEFINE least == CHOOSE i \in I : \A j \in I : i <= j
  <2>5. least \in I BY <2>4
  <2>6. Selection!FirstOf(k) = cw[least] BY DEF Selection!FirstOf, cw, I
  <2> HIDE DEF least
  <2>7. least \in 1..Len(cw) BY <2>1, <2>5
  <2> QED BY <1>5, <2>6, <2>7
<1>8. Selection!Connected # {} => cw[1] \in Selection!Connected BY <1>4, <1>5
<1>9. Selection!Connected # {} => Selection!Fallback \in Selection!Connected
  BY <1>7, <1>8 DEF Selection!Fallback, cw
<1> QED BY <1>6, <1>9

(* The first render has no wallet.                                            *)
LEMMA SelectionInit == Selection!Init => Selection!SelectionInv
<1> SUFFICES ASSUME Selection!Init PROVE Selection!SelectionInv OBVIOUS
<1> USE SuiteAssumption DEF Selection!Init
<1>1. ASSUME NEW S PROVE <<>> \in Selection!Lists(S)
  <2>1. <<>> \in [1..0 -> S] OBVIOUS
  <2>2. \A i, j \in DOMAIN <<>> : FALSE OBVIOUS
  <2>3. Selection!IsInjective(<<>>) BY <2>2 DEF Selection!IsInjective
  <2> QED BY <2>1, <2>3 DEF Selection!Lists, Selection!SeqOf
<1>2. Selection!TypeOK
  <2>1. eth \in Selection!Lists(Selection!Evm) /\ sol \in Selection!Lists(Wallet \ Selection!Evm)
    BY <1>1
  <2>2. renders \in 0..Switches OBVIOUS
  <2> QED BY <2>1, <2>2 DEF Selection!TypeOK
<1>3. Selection!RendersFollow BY DEF Selection!RendersFollow
<1>4. Selection!ClickStands BY DEF Selection!ClickStands
<1> QED BY <1>2, <1>3, <1>4 DEF Selection!SelectionInv

(* What is typed and connected, for every action.                             *)
LEMMA SelectionTypes ==
  ASSUME Selection!TypeOK
  PROVE  /\ selected \in Wallet \cup {None} /\ queued \in Wallet \cup {None, "nothing"}
         /\ Selection!Upcoming \in Wallet \cup {None}
         /\ Selection!Connected \subseteq Wallet
         /\ Selection!Connected # {} => Selection!Fallback \in Selection!Connected
BY FallbackConnected DEF Selection!TypeOK, Selection!Upcoming

(* Other lists: both effects are due.                                         *)
LEMMA ListsStep ==
  ASSUME Selection!SelectionInv, Selection!ListsChange
  PROVE  Selection!SelectionInv'
<1> USE DEF Selection!SelectionInv
<1>1. /\ due = {} /\ renders < Switches /\ renders' = renders + 1
      /\ queued' = "nothing" /\ selected' = Selection!Upcoming
      /\ due' = {"restore", "auto"}
      /\ (chosen' = chosen /\ chosen \in Selection!Connected') \/ chosen' = None
      /\ UNCHANGED <<user, choice, manual, strained>>
      /\ eth' \in Selection!Lists(Selection!Evm)
      /\ sol' \in Selection!Lists(Wallet \ Selection!Evm)
  BY DEF Selection!ListsChange, Selection!TakeUp, Selection!TypeOK, Selection!Connected,
    Selection!connectedWallets
<1>2. Selection!TypeOK' BY <1>1, SelectionTypes, SuiteAssumption DEF Selection!TypeOK
<1>3. Selection!RendersFollow' BY <1>1 DEF Selection!RendersFollow
<1>4. Selection!Upcoming' = Selection!Upcoming BY <1>1 DEF Selection!Upcoming
<1>5. Selection!ClickStands' BY <1>1, <1>4 DEF Selection!ClickStands
<1> QED BY <1>2, <1>3, <1>5

(* Another user, or none: the choice is forgotten.                            *)
LEMMA LoginStep ==
  ASSUME Selection!SelectionInv, Selection!LoginChanges
  PROVE  Selection!SelectionInv'
<1> USE DEF Selection!SelectionInv
<1>1. /\ due = {} /\ renders < Switches /\ renders' = renders + 1
      /\ queued' = "nothing" /\ selected' = Selection!Upcoming
      /\ due' \in {{"restore"}, {"restore", "auto"}}
      /\ chosen' = None /\ user' \in User \cup {None}
      /\ UNCHANGED <<eth, sol, choice, manual, strained>>
  BY DEF Selection!LoginChanges, Selection!TakeUp
<1>2. Selection!TypeOK' BY <1>1, SelectionTypes, SuiteAssumption DEF Selection!TypeOK
<1>3. Selection!Upcoming' = Selection!Upcoming BY <1>1 DEF Selection!Upcoming
<1>4. Selection!Connected' = Selection!Connected /\ Selection!Fallback' = Selection!Fallback
  BY <1>1 DEF Selection!Connected, Selection!connectedWallets, Selection!Fallback,
    Selection!FirstOf, Selection!OfKind
<1>5. Selection!RendersFollow' BY <1>1, <1>3, <1>4 DEF Selection!RendersFollow
<1>6. Selection!ClickStands' BY <1>1 DEF Selection!ClickStands
<1> QED BY <1>2, <1>5, <1>6

(* A click stores the choice and sets it.                                     *)
LEMMA ClickStep ==
  ASSUME Selection!SelectionInv, NEW w \in Wallet, Selection!SelectWallet(w)
  PROVE  Selection!SelectionInv'
<1> USE DEF Selection!SelectionInv
<1>1. /\ w \in Selection!Connected /\ user # None /\ queued' = w /\ manual' = TRUE
      /\ choice' = [choice EXCEPT ![user] = w] /\ chosen' = w
      /\ strained' = (strained \/ due # {})
      /\ UNCHANGED <<eth, sol, user, selected, due, renders>>
  BY DEF Selection!SelectWallet
<1>2. user \in User /\ choice'[user] = w BY <1>1 DEF Selection!TypeOK
<1>3. Selection!TypeOK' BY <1>1, <1>2 DEF Selection!TypeOK
<1>4. Selection!Connected' = Selection!Connected
  BY <1>1 DEF Selection!Connected, Selection!connectedWallets
<1>5. Selection!Upcoming' = w BY <1>1, SuiteAssumption DEF Selection!Upcoming
<1>6. Selection!RendersFollow' BY <1>1, <1>4, <1>5 DEF Selection!RendersFollow
<1>7. Selection!ClickStands'
  BY <1>1, <1>2, <1>4, <1>5, SuiteAssumption DEF Selection!ClickStands, Selection!TypeOK
<1> QED BY <1>3, <1>6, <1>7

(* The effects of a commit settle on a connected wallet, and leave a click.   *)
LEMMA EffectsStep ==
  ASSUME Selection!SelectionInv, Selection!RunEffects
  PROVE  Selection!SelectionInv'
<1> USE DEF Selection!SelectionInv
<1>1. /\ due # {} /\ due' = {} /\ manual' = (manual \/ Selection!Restores)
      /\ UNCHANGED <<eth, sol, user, choice, selected, chosen, strained, renders>>
      /\ queued' = IF "auto" \in due /\ Selection!Connected = {} THEN None
                   ELSE IF "auto" \in due /\ ~(manual' /\ selected \in Selection!Connected)
                     THEN Selection!Fallback
                   ELSE IF Selection!Restores THEN choice[user]
                   ELSE queued
  BY DEF Selection!RunEffects, Selection!Keeps
<1>2. Selection!Restores => "restore" \in due /\ user # None /\ choice[user] \in Selection!Connected
  BY DEF Selection!Restores
<1>3. Selection!Connected' = Selection!Connected /\ Selection!Fallback' = Selection!Fallback
  BY <1>1 DEF Selection!Connected, Selection!connectedWallets, Selection!Fallback,
    Selection!FirstOf, Selection!OfKind
<1>4. /\ Selection!Connected \subseteq Wallet
      /\ Selection!Connected # {} => Selection!Fallback \in Selection!Connected
      /\ queued \in Wallet \cup {None, "nothing"}
  BY SelectionTypes
<1>5. queued' \in Wallet \cup {None, "nothing"} /\ manual' \in BOOLEAN
  BY <1>1, <1>2, <1>4 DEF Selection!Restores, Selection!TypeOK
<1>6. Selection!TypeOK' BY <1>1, <1>5 DEF Selection!TypeOK
<1>7. Selection!Upcoming' = IF queued' = "nothing" THEN selected ELSE queued'
  BY <1>1 DEF Selection!Upcoming
<1>8. Selection!RendersFollow'
  <2>1. CASE "auto" \in due
    BY <1>1, <1>2, <1>3, <1>4, <1>7, <2>1, SuiteAssumption
    DEF Selection!RendersFollow, Selection!Upcoming, Selection!TypeOK
  <2>2. CASE "auto" \notin due
    BY <1>1, <1>2, <1>3, <1>4, <1>7, <2>2, SuiteAssumption
    DEF Selection!RendersFollow, Selection!Upcoming, Selection!TypeOK
  <2> QED BY <2>1, <2>2
<1>9. Selection!ClickStands'
  <2> SUFFICES ASSUME chosen # None
               PROVE  /\ manual' /\ user # None /\ choice[user] = chosen
                      /\ chosen \in Selection!Connected
                      /\ ~strained => Selection!Upcoming' = chosen
    BY <1>1, <1>3 DEF Selection!ClickStands
  <2>1. /\ manual /\ user # None /\ choice[user] = chosen /\ chosen \in Selection!Connected
        /\ ~strained => Selection!Upcoming = chosen /\ queued = "nothing"
    BY <1>1 DEF Selection!ClickStands
  <2>2. ~strained => selected = chosen BY <2>1 DEF Selection!Upcoming
  <2>3. ~strained => queued' \in {chosen, "nothing"} BY <1>1, <2>1, <2>2
  <2> QED BY <1>1, <1>7, <2>1, <2>2, <2>3
<1> QED BY <1>6, <1>8, <1>9

(* What was set is shown.                                                     *)
LEMMA CommitStep ==
  ASSUME Selection!SelectionInv, Selection!Commit
  PROVE  Selection!SelectionInv'
<1> USE DEF Selection!SelectionInv
<1>1. /\ due = {} /\ queued # "nothing" /\ queued' = "nothing" /\ selected' = Selection!Upcoming
      /\ due' \in {{}, {"auto"}}
      /\ UNCHANGED <<eth, sol, user, choice, manual, chosen, strained, renders>>
  BY DEF Selection!Commit, Selection!TakeUp
<1>2. Selection!TypeOK' BY <1>1, SelectionTypes DEF Selection!TypeOK
<1>3. Selection!Upcoming' = Selection!Upcoming BY <1>1 DEF Selection!Upcoming
<1>4. Selection!Connected' = Selection!Connected /\ Selection!Fallback' = Selection!Fallback
  BY <1>1 DEF Selection!Connected, Selection!connectedWallets, Selection!Fallback,
    Selection!FirstOf, Selection!OfKind
<1>5. Selection!RendersFollow' BY <1>1, <1>3, <1>4 DEF Selection!RendersFollow
<1>6. Selection!ClickStands' BY <1>1, <1>3, <1>4 DEF Selection!ClickStands
<1> QED BY <1>2, <1>5, <1>6

(* Every step of the provider.                                                *)
LEMMA SelectionStep ==
  ASSUME Selection!SelectionInv, Selection!Next
  PROVE  Selection!SelectionInv'
BY ListsStep, LoginStep, ClickStep, EffectsStep, CommitStep DEF Selection!Next

(* With no effect due and nothing set, the next commit is the last one.       *)
LEMMA SelectionSettled == Selection!SelectionInv => Selection!SelectionSettles
BY DEF Selection!SelectionInv, Selection!RendersFollow, Selection!ClickStands,
  Selection!SelectionSettles, Selection!Settled, Selection!Upcoming

-------------------------------------------------------------------------------
(* Who is granted what. *)

(* The invariant in the parts the actions disturb one by one.                 *)
CacheOK ==
  /\ cache \in Seq(Access!Entry) /\ Len(cache) <= CacheMax
  /\ \A i, j \in DOMAIN cache : cache[i].user = cache[j].user => i = j
  /\ \A i \in DOMAIN cache :
       cache[i].left > 0 => cache[i].ago + cache[i].left <= UserTtl + RequestMax
AddrOK ==
  /\ addr \in [Owned -> {None} \cup Access!Copy]
  /\ \A w \in Owned : addr[w] # None => addr[w].ago + addr[w].left <= AddrTtl + RequestMax
RequestsOK ==
  /\ request \in [Slot -> Access!Request]
  /\ \A r \in Slot : Access!RequestFresh(request[r])
OutsideOK == Access!LinksOK(linked) /\ Access!RowsOK(agents) /\ changed \in 0..Relinks

(* The four parts together are the invariant.                                 *)
LEMMA AccessParts == Access!AccessInv <=> OutsideOK /\ CacheOK /\ AddrOK /\ RequestsOK
BY DEF OutsideOK, CacheOK, AddrOK, RequestsOK, Access!AccessInv, Access!TypeOK, Access!CopiesFresh

(* The bounds are numbers, and a copy grows older by one tick at most.        *)
LEMMA AccessNumbers ==
  /\ Access!Horizon \in Nat /\ RequestMax \in Nat
  /\ UserTtl \in Nat /\ UserTtl >= 1 /\ AddrTtl \in Nat /\ AddrTtl >= 1
  /\ CacheMax \in Nat /\ CacheMax >= 1
  /\ \A n \in 0..Access!Horizon :
       /\ Access!Older(n) \in 0..Access!Horizon /\ Access!Older(n) <= n + 1
<1>1. Access!Horizon \in Nat BY SuiteAssumption DEF Access!Horizon
<1> QED BY <1>1, SuiteAssumption DEF Access!Older

(* A list of linked wallets, and the first of them.                           *)
LEMMA AccessLists ==
  /\ <<>> \in Access!Lists
  /\ \A q \in Access!Lists :
       /\ q \in Seq(Owned) /\ Access!ToSet(q) \subseteq Owned
       /\ q # <<>> => q[1] \in Owned
<1>1. <<>> \in Access!Lists
  <2>1. <<>> \in [1..0 -> Owned] OBVIOUS
  <2>2. Access!IsInjective(<<>>) BY DEF Access!IsInjective
  <2> QED BY <2>1, <2>2 DEF Access!Lists, Access!SeqOf
<1>2. ASSUME NEW q \in Access!Lists
      PROVE  q \in Seq(Owned) /\ Access!ToSet(q) \subseteq Owned /\ (q # <<>> => q[1] \in Owned)
  <2>1. PICK m \in 0..2 : q \in [1..m -> Owned] BY DEF Access!Lists, Access!SeqOf
  <2>2. q \in Seq(Owned) BY <2>1, SeqDef
  <2>3. Access!ToSet(q) \subseteq Owned BY <2>1 DEF Access!ToSet
  <2>4. q # <<>> => Len(q) >= 1 BY <2>2, EmptySeq
  <2> QED BY <2>2, <2>3, <2>4
<1> QED BY <1>1, <1>2

(* The first wallet of a request is an address, if there is one.              *)
LEMMA FirstServed ==
  ASSUME NEW x \in Access!Request PROVE Access!First(x) \in Access!Address \cup {None}
<1>1. x.asked \in Owned \cup {None} /\ x.wallets \in Access!Lists BY DEF Access!Request
<1> QED BY <1>1, AccessLists DEF Access!First, Access!Address

(* A request that has kept nothing yet is fresh.                              *)
LEMMA IdleRequest ==
  /\ Access!Idle \in Access!Request
  /\ Access!Idle.pc = "idle" /\ Access!Idle.ago = 0 /\ Access!Idle.via = None
  /\ Access!Idle.atAgo = 0 /\ Access!Idle.age = 0
BY AccessLists, AccessNumbers DEF Access!Idle, Access!Request, Access!Route, Access!ForOwner

(* Nothing kept is not too old.                                               *)
LEMMA BlankFresh ==
  ASSUME NEW x \in Access!Request, x.ago = 0, x.via = None, x.atAgo = 0,
         x.pc \notin {"put", "served"}, x.pc \in {"verify", "privy", "told"} => x.user \in User
  PROVE  Access!RequestFresh(x)
<1>1. x.age \in Nat BY AccessNumbers DEF Access!Request
<1>2. 0 <= UserTtl - 1 + RequestMax + x.age BY <1>1, AccessNumbers
<1>3. 0 <= x.age BY <1>1
<1> QED BY <1>2, <1>3 DEF Access!RequestFresh, Access!ListRecent, Access!AddressRecent, Access!Waiting

(* An answer keeps nothing of the request.                                    *)
LEMMA AnswerFresh ==
  ASSUME NEW p \in Access!Answers \cup {"idle"}
  PROVE  Access!Answer(p) \in Access!Request /\ Access!RequestFresh(Access!Answer(p))
<1> DEFINE x == Access!Idle
           y == [x EXCEPT !.pc = p]
<1>1. x \in Access!Request /\ x.ago = 0 /\ x.via = None /\ x.atAgo = 0 BY IdleRequest
<1> HIDE DEF x
<1>2. y \in Access!Request BY <1>1 DEF Access!Request
<1>3. y.pc = p /\ y.ago = 0 /\ y.via = None /\ y.atAgo = 0 BY <1>1 DEF Access!Request
<1> HIDE DEF y
<1>4. p \notin {"put", "served", "verify", "privy", "told"} BY DEF Access!Answers
<1>5. Access!RequestFresh(y) BY <1>2, <1>3, <1>4, BlankFresh
<1>6. Access!Answer(p) = y BY DEF Access!Answer, x, y
<1> QED BY <1>2, <1>5, <1>6

(* A list of wallets that is recent enough authorizes a request, or has it    *)
(* asked for again.                                                           *)
LEMMA AuthorizedFresh ==
  ASSUME NEW x \in Access!Request, Access!RequestFresh(x), x.pc \in {"verify", "told"},
         NEW q \in Access!Lists, NEW n \in 0..Access!Horizon,
         n <= UserTtl - 1 + RequestMax + x.age
  PROVE  /\ Access!Authorized(x, q, n) \in Access!Request
         /\ Access!RequestFresh(Access!Authorized(x, q, n))
<1> DEFINE known == [x EXCEPT !.wallets = q, !.ago = n]
           asking == [Access!Answer("verify") EXCEPT !.user = x.user, !.asked = x.asked,
                        !.again = TRUE, !.age = x.age]
<1>1. \/ \E p \in {"read", "resolve"} : Access!Authorized(x, q, n) = [known EXCEPT !.pc = p]
      \/ Access!Authorized(x, q, n) \in {Access!Answer("refused"), asking}
  BY DEF Access!Authorized
<1>2. ASSUME NEW p \in {"read", "resolve"}
      PROVE  [known EXCEPT !.pc = p] \in Access!Request /\ Access!RequestFresh([known EXCEPT !.pc = p])
  <2> DEFINE y == [known EXCEPT !.pc = p]
  <2>1. y \in Access!Request BY DEF Access!Request, Access!Waiting
  <2>2. /\ y.pc = p /\ y.ago = n /\ y.via = x.via /\ y.atAgo = x.atAgo /\ y.age = x.age
    BY DEF Access!Request
  <2>3. x.via = None /\ x.atAgo = 0 BY DEF Access!RequestFresh, Access!Waiting
  <2> HIDE DEF y
  <2>4. Access!RequestFresh(y)
    BY <2>2, <2>3 DEF Access!RequestFresh, Access!ListRecent, Access!AddressRecent
  <2> QED BY <2>1, <2>4 DEF y
<1>3. asking \in Access!Request /\ Access!RequestFresh(asking)
  <2> DEFINE z == Access!Idle
             y == [[z EXCEPT !.pc = "verify"] EXCEPT !.user = x.user, !.asked = x.asked,
                     !.again = TRUE, !.age = x.age]
  <2>1. z \in Access!Request /\ z.ago = 0 /\ z.via = None /\ z.atAgo = 0 BY IdleRequest
  <2>2. x.user \in User BY DEF Access!RequestFresh
  <2>3. asking = y BY DEF Access!Answer
  <2> HIDE DEF z, asking
  <2>4. y \in Access!Request BY <2>1 DEF Access!Request, Access!Waiting
  <2>5. y.pc = "verify" /\ y.user = x.user /\ y.ago = 0 /\ y.via = None /\ y.atAgo = 0
    BY <2>1 DEF Access!Request
  <2> HIDE DEF y
  <2>6. Access!RequestFresh(y) BY <2>2, <2>4, <2>5, BlankFresh
  <2> QED BY <2>3, <2>4, <2>6
<1>4. /\ Access!Answer("refused") \in Access!Request
      /\ Access!RequestFresh(Access!Answer("refused"))
  BY AnswerFresh DEF Access!Answers
<1> HIDE DEF known, asking
<1> QED BY <1>1, <1>2, <1>3, <1>4

(* No request, no copy.                                                       *)
LEMMA AccessInit == Access!Init => Access!AccessInv
<1> SUFFICES ASSUME Access!Init PROVE OutsideOK /\ CacheOK /\ AddrOK /\ RequestsOK
  BY AccessParts
<1> USE DEF Access!Init
<1>1. OutsideOK BY SuiteAssumption DEF OutsideOK
<1>2. CacheOK BY AccessNumbers DEF CacheOK
<1>3. AddrOK BY DEF AddrOK
<1>4. RequestsOK
  <2>1. Access!Idle \in Access!Request /\ Access!RequestFresh(Access!Idle)
    BY IdleRequest, BlankFresh
  <2> QED BY <2>1 DEF RequestsOK
<1> QED BY <1>1, <1>2, <1>3, <1>4

(* One request changes, into a fresh one.                                     *)
LEMMA BecomeKeeps ==
  ASSUME RequestsOK, NEW r \in Slot, NEW x \in Access!Request, Access!RequestFresh(x),
         Access!Become(r, x)
  PROVE  RequestsOK'
<1>1. request' = [request EXCEPT ![r] = x] BY DEF Access!Become
<1>2. request' \in [Slot -> Access!Request] BY <1>1 DEF RequestsOK
<1>3. \A s \in Slot : request'[s] = IF s = r THEN x ELSE request[s] BY <1>1 DEF RequestsOK
<1>4. \A s \in Slot : Access!RequestFresh(request'[s]) BY <1>3 DEF RequestsOK
<1>5. \A s \in Slot : Access!RequestFresh(request[s])' BY <1>4 DEF Access!RequestFresh,
  Access!ListRecent, Access!AddressRecent, Access!Known, Access!First
<1> QED BY <1>2, <1>5 DEF RequestsOK

(* A request arrives, by a user or by the secret of the cron.                 *)
LEMMA ArriveStep ==
  ASSUME RequestsOK, NEW r \in Slot, NEW asks \in Serves[r], NEW lower \in BOOLEAN,
         Access!Arrive(r, asks[1], asks[2], asks[3], lower)
  PROVE  RequestsOK'
<1> DEFINE u == asks[1]
           route == asks[2]
           a == asks[3]
<1>1. u \in User /\ route \in Access!Route /\ a \in Owned BY SuiteAssumption
<1> DEFINE z == Access!Idle
           y == [z EXCEPT !.pc = "verify", !.route = route, !.user = u, !.asked = a, !.lower = lower]
<1>2. Access!Become(r, y) BY DEF Access!Arrive
<1>3. z \in Access!Request /\ z.ago = 0 /\ z.via = None /\ z.atAgo = 0 BY IdleRequest
<1> HIDE DEF z, u, route, a
<1>4. y \in Access!Request BY <1>1, <1>3 DEF Access!Request, Access!Waiting
<1>5. y.pc = "verify" /\ y.user = u /\ y.ago = 0 /\ y.via = None /\ y.atAgo = 0
  BY <1>3 DEF Access!Request
<1> HIDE DEF y
<1>6. Access!RequestFresh(y) BY <1>1, <1>4, <1>5, BlankFresh
<1> QED BY <1>2, <1>4, <1>6, BecomeKeeps

(* The secret of the cron needs no list.                                      *)
LEMMA CronAsksStep ==
  ASSUME RequestsOK, NEW r \in Slot, Access!CronAsks(r)
  PROVE  RequestsOK'
<1> DEFINE z == Access!Idle
           y == [z EXCEPT !.pc = "read", !.route = "health"]
<1>1. Access!Become(r, y) BY DEF Access!CronAsks
<1>2. z \in Access!Request /\ z.ago = 0 /\ z.via = None /\ z.atAgo = 0 BY IdleRequest
<1> HIDE DEF z
<1>3. y \in Access!Request BY <1>2 DEF Access!Request, Access!Waiting, Access!Route
<1>4. y.pc = "read" /\ y.ago = 0 /\ y.via = None /\ y.atAgo = 0
  BY <1>2 DEF Access!Request
<1> HIDE DEF y
<1>5. Access!RequestFresh(y) BY <1>3, <1>4, BlankFresh
<1> QED BY <1>1, <1>3, <1>5, BecomeKeeps

(* An entry that still serves is recent enough to authorize.                  *)
LEMMA LookUpStep ==
  ASSUME RequestsOK, CacheOK, NEW r \in Slot, Access!LookUp(r)
  PROVE  RequestsOK'
<1> DEFINE x == request[r]
<1>1. x \in Access!Request /\ Access!RequestFresh(x) BY DEF RequestsOK
<1>2. x.pc = "verify" BY DEF Access!LookUp, Access!At
<1>3. CASE Access!Become(r, [x EXCEPT !.pc = "privy"])
  <2> DEFINE y == [x EXCEPT !.pc = "privy"]
  <2> HIDE DEF x
  <2>1. y \in Access!Request BY <1>1 DEF Access!Request, Access!Waiting
  <2>2. y.pc = "privy" /\ y.user = x.user /\ y.ago = x.ago /\ y.via = x.via /\ y.atAgo = x.atAgo
    BY <1>1 DEF Access!Request
  <2>3. x.user \in User /\ x.ago = 0 /\ x.via = None /\ x.atAgo = 0
    BY <1>1, <1>2 DEF Access!RequestFresh, Access!Waiting
  <2>4. Access!RequestFresh(y)
    <3> HIDE DEF y
    <3> QED BY <2>1, <2>2, <2>3, BlankFresh
  <2> QED BY <1>3, <2>1, <2>4, BecomeKeeps DEF x
<1>4. ASSUME NEW i \in Access!EntryOf(x.user),
             Access!Become(r, Access!Authorized(x, cache[i].wallets, cache[i].ago))
      PROVE  RequestsOK'
  <2>1. i \in DOMAIN cache /\ cache[i].left > 0 BY DEF Access!EntryOf
  <2>2. cache[i] \in Access!Entry BY <2>1 DEF CacheOK
  <2>3. cache[i].ago + cache[i].left <= UserTtl + RequestMax BY <2>1 DEF CacheOK
  <2>4. /\ cache[i].wallets \in Access!Lists /\ cache[i].ago \in 0..Access!Horizon
        /\ cache[i].left \in Nat
    BY <2>2, AccessNumbers DEF Access!Entry
  <2>5. x.age \in Nat BY <1>1, AccessNumbers DEF Access!Request
  <2> DEFINE n == cache[i].ago
             l == cache[i].left
             a == x.age
  <2>6. n \in Nat /\ l \in Nat /\ a \in Nat /\ l > 0 /\ n + l <= UserTtl + RequestMax
    BY <2>1, <2>3, <2>4, <2>5, AccessNumbers
  <2>7. n <= UserTtl - 1 + RequestMax + a
    <3> HIDE DEF n, l, a
    <3> QED BY <2>6, AccessNumbers
  <2> HIDE DEF x
  <2> QED BY <1>1, <1>2, <1>4, <2>4, <2>7, AuthorizedFresh, BecomeKeeps
<1> QED BY <1>3, <1>4 DEF Access!LookUp

(* What Privy says is true when it says so.                                   *)
LEMMA ReadPrivyStep ==
  ASSUME RequestsOK, OutsideOK, NEW r \in Slot, Access!ReadPrivy(r)
  PROVE  RequestsOK'
<1> DEFINE x == request[r]
           y == [x EXCEPT !.pc = "told", !.wallets = linked[x.user]]
<1>1. x \in Access!Request /\ Access!RequestFresh(x) BY DEF RequestsOK
<1>2. x.pc = "privy" /\ Access!Become(r, y) BY DEF Access!ReadPrivy, Access!At
<1> HIDE DEF x
<1>3. x.user \in User /\ x.ago = 0 /\ x.via = None /\ x.atAgo = 0
  BY <1>1, <1>2 DEF Access!RequestFresh, Access!Waiting
<1>4. linked[x.user] \in Access!Lists BY <1>3 DEF OutsideOK, Access!LinksOK
<1>5. y \in Access!Request BY <1>1, <1>4 DEF Access!Request, Access!Waiting
<1>6. y.pc = "told" /\ y.user = x.user /\ y.ago = x.ago /\ y.via = x.via /\ y.atAgo = x.atAgo
  BY <1>1 DEF Access!Request
<1>7. Access!RequestFresh(y)
  <2> HIDE DEF y
  <2> QED BY <1>3, <1>5, <1>6, BlankFresh
<1> QED BY <1>2, <1>5, <1>7, BecomeKeeps

(* A request is served an address of the cache, or of a row, or the first     *)
(* wallet; only its address, not its list, is new.                            *)
LEMMA ServedFresh ==
  ASSUME NEW x \in Access!Request, Access!RequestFresh(x), Access!Known(x),
         NEW a \in Access!Address \cup {None}, NEW n \in 0..Access!Horizon, NEW y,
         y = [x EXCEPT !.pc = "served", !.at = a, !.atAgo = n],
         a = Access!First(x) \/ n <= AddrTtl - 1 + RequestMax + x.age
  PROVE  y \in Access!Request /\ Access!RequestFresh(y)
<1>1. y \in Access!Request BY DEF Access!Request
<1>2. /\ y.pc = "served" /\ y.at = a /\ y.atAgo = n /\ y.age = x.age /\ y.ago = x.ago
      /\ y.wallets = x.wallets /\ y.asked = x.asked
  BY DEF Access!Request
<1>3. Access!First(y) = Access!First(x) BY <1>2 DEF Access!First
<1>4. x.ago <= UserTtl - 1 + RequestMax + x.age BY DEF Access!RequestFresh, Access!ListRecent
<1>5. Access!RequestFresh(y)
  BY <1>2, <1>3, <1>4 DEF Access!RequestFresh, Access!ListRecent, Access!AddressRecent, Access!Waiting
<1> QED BY <1>1, <1>5

(* A cached address, or on to the rows.                                       *)
LEMMA ResolveStep ==
  ASSUME RequestsOK, AddrOK, NEW r \in Slot, Access!ResolveCached(r)
  PROVE  RequestsOK'
<1> DEFINE x == request[r]
<1>1. x \in Access!Request /\ Access!RequestFresh(x) BY DEF RequestsOK
<1>2. x.pc = "resolve" BY DEF Access!ResolveCached, Access!At
<1>3. ASSUME NEW w \in Access!ToSet(x.wallets), addr[w] # None,
             Access!Become(r, [x EXCEPT !.pc = "served", !.at = addr[w].at, !.atAgo = addr[w].ago])
      PROVE  RequestsOK'
  <2>1. x.wallets \in Access!Lists BY <1>1 DEF Access!Request
  <2>2. w \in Owned BY <2>1, AccessLists
  <2>3. addr[w] \in Access!Copy /\ addr[w].ago + addr[w].left <= AddrTtl + RequestMax
    BY <1>3, <2>2 DEF AddrOK
  <2>4. /\ addr[w].at \in Access!Address /\ addr[w].ago \in 0..Access!Horizon
        /\ addr[w].left \in 1..AddrTtl
    BY <2>3 DEF Access!Copy
  <2>5. x.age \in Nat BY <1>1, AccessNumbers DEF Access!Request
  <2> DEFINE n == addr[w].ago
             l == addr[w].left
             a == x.age
             y == [x EXCEPT !.pc = "served", !.at = addr[w].at, !.atAgo = n]
  <2>6. n \in Nat /\ l \in Nat /\ l >= 1 /\ a \in Nat /\ n + l <= AddrTtl + RequestMax
    BY <2>3, <2>4, <2>5, AccessNumbers
  <2>7. n <= AddrTtl - 1 + RequestMax + a
    <3> HIDE DEF n, l, a
    <3> QED BY <2>6, AccessNumbers
  <2>8. y \in Access!Request /\ Access!RequestFresh(y)
    <3> HIDE DEF x
    <3> QED BY <1>1, <1>2, <2>4, <2>7, ServedFresh DEF Access!Known
  <2>9. Access!Become(r, y) BY <1>3
  <2> HIDE DEF y
  <2> QED BY <2>8, <2>9, BecomeKeeps
<1>4. CASE Access!Become(r, [x EXCEPT !.pc = "row"])
  <2> DEFINE y == [x EXCEPT !.pc = "row"]
  <2> HIDE DEF x
  <2>1. y \in Access!Request BY <1>1 DEF Access!Request, Access!Waiting
  <2>2. y.pc = "row" /\ y.via = x.via /\ y.atAgo = x.atAgo /\ y.ago = x.ago /\ y.age = x.age
    BY <1>1 DEF Access!Request
  <2>3. /\ x.via = None /\ x.atAgo = 0 /\ x.ago <= UserTtl - 1 + RequestMax + x.age
    BY <1>1, <1>2 DEF Access!RequestFresh, Access!Waiting, Access!ListRecent, Access!Known
  <2>4. Access!RequestFresh(y)
    <3> HIDE DEF y
    <3> QED BY <2>2, <2>3 DEF Access!RequestFresh, Access!ListRecent, Access!AddressRecent
  <2> QED BY <1>4, <2>1, <2>4, BecomeKeeps DEF x
<1> QED BY <1>3, <1>4 DEF Access!ResolveCached

(* What a row says is true when it is read; without one, the first wallet     *)
(* stands in.                                                                 *)
LEMMA ReadRowStep ==
  ASSUME RequestsOK, NEW r \in Slot, Access!ReadRow(r) \/ Access!ReadRowFails(r)
  PROVE  RequestsOK'
<1> DEFINE x == request[r]
<1>1. x \in Access!Request /\ Access!RequestFresh(x) BY DEF RequestsOK
<1>2. x.pc = "row" BY DEF Access!ReadRow, Access!ReadRowFails, Access!At
<1>3. x.via = None /\ x.atAgo = 0 /\ x.ago <= UserTtl - 1 + RequestMax + x.age
  BY <1>1, <1>2 DEF Access!RequestFresh, Access!Waiting, Access!ListRecent, Access!Known
<1>4. ASSUME NEW w \in Access!Registered(x.wallets),
             Access!Become(r, [x EXCEPT !.pc = "put", !.via = w, !.at = agents[w]])
      PROVE  RequestsOK'
  <2> DEFINE y == [x EXCEPT !.pc = "put", !.via = w, !.at = agents[w]]
  <2>1. x.wallets \in Access!Lists BY <1>1 DEF Access!Request
  <2>2. w \in Owned /\ agents[w] \in Access!Address
    BY <2>1, AccessLists DEF Access!Registered
  <2> HIDE DEF x
  <2>3. y \in Access!Request BY <1>1, <2>2 DEF Access!Request, Access!Waiting
  <2>4. /\ y.pc = "put" /\ y.via = w /\ y.at = agents[w] /\ y.atAgo = x.atAgo /\ y.ago = x.ago
        /\ y.age = x.age
    BY <1>1 DEF Access!Request
  <2>5. 0 <= x.age BY <1>1, AccessNumbers DEF Access!Request
  <2>6. Access!RequestFresh(y)
    <3> HIDE DEF y
    <3> QED BY <1>3, <2>2, <2>4, <2>5
        DEF Access!RequestFresh, Access!ListRecent, Access!AddressRecent
  <2> QED BY <1>4, <2>3, <2>6, BecomeKeeps DEF x
<1>5. CASE Access!Become(r, [x EXCEPT !.pc = "served", !.at = Access!First(x)])
  <2> DEFINE a == Access!First(x)
             y == [x EXCEPT !.pc = "served", !.at = a]
  <2>1. a \in Access!Address \cup {None} BY <1>1, FirstServed
  <2>2. x.atAgo \in 0..Access!Horizon BY <1>1 DEF Access!Request
  <2>3. Access!Known(x) BY <1>2 DEF Access!Known
  <2>4. a = Access!First(x) OBVIOUS
  <2> HIDE DEF x, a
  <2>5. y = [x EXCEPT !.pc = "served", !.at = a, !.atAgo = x.atAgo]
    BY <1>1 DEF Access!Request
  <2>6. y \in Access!Request /\ Access!RequestFresh(y)
    BY <1>1, <2>1, <2>2, <2>3, <2>4, <2>5, ServedFresh
  <2> QED BY <1>5, <2>6, BecomeKeeps DEF x, a
<1> QED BY <1>4, <1>5 DEF Access!ReadRow, Access!ReadRowFails

(* The routes that answer at once.                                            *)
LEMMA AnswersStep ==
  ASSUME RequestsOK, NEW r \in Slot,
         \/ Access!Refuse(r) \/ Access!ReadOwn(r) \/ Access!Evaluate(r) \/ Access!Sync(r)
         \/ Access!ReadHealth(r) \/ Access!ReadStatus(r)
  PROVE  RequestsOK'
<1>1. \E p \in Access!Answers : Access!Become(r, Access!Answer(p))
  <2> USE DEF Access!Answers
  <2>1. CASE Access!Refuse(r) BY <2>1 DEF Access!Refuse
  <2>2. CASE Access!ReadOwn(r) BY <2>2 DEF Access!ReadOwn
  <2>3. CASE Access!Evaluate(r) BY <2>3 DEF Access!Evaluate
  <2>4. CASE Access!Sync(r) BY <2>4 DEF Access!Sync
  <2>5. CASE Access!ReadHealth(r)
    <3>1. \A db, zerodev, morpho \in {"up", "down"}, project \in BOOLEAN :
            Access!Health(db, project, zerodev, morpho) \in Access!Answers
      BY DEF Access!Health
    <3> HIDE DEF Access!Answers
    <3> QED BY <2>5, <3>1 DEF Access!ReadHealth
  <2>6. CASE Access!ReadStatus(r)
    <3>1. \A checks : Access!DeadMan(checks) \in Access!Answers BY DEF Access!DeadMan
    <3> HIDE DEF Access!Answers
    <3> QED BY <2>6, <3>1 DEF Access!ReadStatus
  <2> QED BY <2>1, <2>2, <2>3, <2>4, <2>5, <2>6
<1> QED BY <1>1, AnswerFresh, BecomeKeeps

(* A registration is stored or cleared.                                       *)
LEMMA ReregisterStep ==
  ASSUME OutsideOK, NEW w \in Owned, NEW a, Access!Reregister(w, a)
  PROVE  OutsideOK'
<1>1. /\ changed < Relinks /\ changed' = changed + 1 /\ linked' = linked
      /\ a \in {"user", w, Smart[w]} /\ agents' = [agents EXCEPT ![w] = a]
  BY DEF Access!Reregister
<1>2. changed' \in 0..Relinks BY <1>1, SuiteAssumption DEF OutsideOK
<1>3. Access!RowsOK(agents) /\ a \in {"user"} \cup Access!Address
  BY <1>1 DEF OutsideOK, Access!Address
<1>4. Access!RowsOK(agents') BY <1>1, <1>3 DEF Access!RowsOK
<1> QED BY <1>1, <1>2, <1>4 DEF OutsideOK, Access!RowsOK, Access!LinksOK

(* A user who logs in gets a row.                                             *)
LEMMA SyncStep ==
  ASSUME OutsideOK, RequestsOK, NEW r \in Slot, Access!Sync(r)
  PROVE  OutsideOK'
<1> DEFINE w == request[r].asked
<1>1. w \in Owned \cup {None} BY DEF RequestsOK, Access!Request
<1>2. UNCHANGED <<linked, changed>> BY DEF Access!Sync
<1>3. agents' \in {agents, [agents EXCEPT ![w] = IF @ = None THEN "user" ELSE @]}
  BY DEF Access!Sync
<1> HIDE DEF w
<1>4. Access!RowsOK(agents) BY DEF OutsideOK
<1>5. Access!RowsOK(agents') BY <1>3, <1>4 DEF Access!RowsOK
<1> QED BY <1>2, <1>5 DEF OutsideOK, Access!RowsOK, Access!LinksOK

(* A wallet is linked or unlinked.                                            *)
LEMMA RelinkStep ==
  ASSUME OutsideOK, NEW u \in User, NEW q \in Access!Lists, Access!Relink(u, q)
  PROVE  OutsideOK'
<1>1. /\ changed < Relinks /\ changed' = changed + 1 /\ agents' = agents
      /\ \A v \in User \ {u} : Access!ToSet(q) \cap Access!ToSet(linked[v]) = {}
      /\ linked' = [linked EXCEPT ![u] = q]
  BY DEF Access!Relink
<1>2. changed' \in 0..Relinks BY <1>1, SuiteAssumption DEF OutsideOK
<1>3. Access!LinksOK(linked) BY DEF OutsideOK
<1>4. /\ linked' \in [User -> Access!Lists]
      /\ \A v \in User : linked'[v] = IF v = u THEN q ELSE linked[v]
  BY <1>1, <1>3 DEF Access!LinksOK
<1>5. \A v, w \in User :
        v # w => Access!ToSet(linked'[v]) \cap Access!ToSet(linked'[w]) = {}
  BY <1>1, <1>3, <1>4 DEF Access!LinksOK
<1>6. Access!LinksOK(linked') BY <1>4, <1>5 DEF Access!LinksOK
<1> QED BY <1>1, <1>2, <1>6 DEF OutsideOK, Access!RowsOK, Access!LinksOK

(* A sequence whose entries are replaced one by one.                          *)
LEMMA MappedSeq ==
  ASSUME NEW S, NEW f \in Seq(S), NEW g \in [DOMAIN f -> S]
  PROVE  g \in Seq(S) /\ Len(g) = Len(f) /\ DOMAIN g = DOMAIN f
<1>1. DOMAIN f = 1..Len(f) /\ Len(f) \in Nat OBVIOUS
<1>2. g \in [1..Len(f) -> S] BY <1>1
<1>3. g \in Seq(S) BY <1>1, <1>2, SeqDef
<1> QED BY <1>1, <1>2, <1>3

(* A full cache drops its first entry.                                        *)
LEMMA CacheKept ==
  ASSUME CacheOK, NEW kept, kept = IF Len(cache) >= CacheMax THEN Tail(cache) ELSE cache
  PROVE  /\ kept \in Seq(Access!Entry) /\ Len(kept) < CacheMax
         /\ \A i, j \in DOMAIN kept : kept[i].user = kept[j].user => i = j
         /\ \A i \in DOMAIN kept :
              kept[i].left > 0 => kept[i].ago + kept[i].left <= UserTtl + RequestMax
<1>1. cache \in Seq(Access!Entry) /\ Len(cache) <= CacheMax /\ Len(cache) \in Nat
      /\ DOMAIN cache = 1..Len(cache)
  BY DEF CacheOK
<1>2. CASE Len(cache) >= CacheMax
  <2>1. cache # <<>> BY <1>1, <1>2, AccessNumbers
  <2>2. /\ Tail(cache) \in Seq(Access!Entry) /\ Len(Tail(cache)) = Len(cache) - 1
        /\ \A i \in 1..Len(Tail(cache)) : Tail(cache)[i] = cache[i + 1]
    BY <1>1, <2>1, HeadTailProperties
  <2>3. kept = Tail(cache) BY <1>2
  <2>4. DOMAIN kept = 1..(Len(cache) - 1) BY <1>1, <2>2, <2>3
  <2>5. \A i \in DOMAIN kept : kept[i] = cache[i + 1] /\ i + 1 \in DOMAIN cache
    BY <1>1, <2>2, <2>3, <2>4
  <2>6. Len(kept) < CacheMax BY <1>1, <2>2, <2>3, AccessNumbers
  <2>7. ASSUME NEW i \in DOMAIN kept, NEW j \in DOMAIN kept, kept[i].user = kept[j].user
        PROVE  i = j
    <3>1. i + 1 = j + 1 BY <2>5, <2>7 DEF CacheOK
    <3>2. i \in Nat /\ j \in Nat BY <1>1, <2>4
    <3> QED BY <3>1, <3>2
  <2>8. \A i \in DOMAIN kept :
          kept[i].left > 0 => kept[i].ago + kept[i].left <= UserTtl + RequestMax
    BY <2>5 DEF CacheOK
  <2> QED BY <2>2, <2>3, <2>6, <2>7, <2>8
<1>3. CASE ~(Len(cache) >= CacheMax)
  <2>1. kept = cache /\ Len(kept) < CacheMax BY <1>1, <1>3, AccessNumbers
  <2> QED BY <2>1 DEF CacheOK
<1> QED BY <1>2, <1>3

(* An entry is as stale as the request that writes it is old, or less.        *)
LEMMA ToldCache ==
  ASSUME CacheOK, RequestsOK, NEW r \in Slot, Access!Told(r)
  PROVE  CacheOK'
<1> DEFINE x == request[r]
           u == x.user
           mine == [user |-> u, wallets |-> x.wallets, ago |-> x.ago, left |-> UserTtl]
           kept == IF Len(cache) >= CacheMax THEN Tail(cache) ELSE cache
<1>1. x \in Access!Request /\ Access!RequestFresh(x) BY DEF RequestsOK
<1>2. x.pc = "told" BY DEF Access!Told, Access!At
<1>3. /\ x.user \in User /\ x.wallets \in Access!Lists /\ x.ago \in 0..Access!Horizon
      /\ x.ago \in Nat /\ x.age \in Nat /\ x.ago <= x.age /\ x.age <= RequestMax
  BY <1>1, <1>2, AccessNumbers DEF Access!RequestFresh, Access!Request
<1>4. /\ mine \in Access!Entry /\ mine.user = u
      /\ mine.ago + mine.left <= UserTtl + RequestMax
  <2>1. mine \in Access!Entry BY <1>3, AccessNumbers DEF Access!Entry
  <2>2. \A n, m \in Nat : n <= m /\ m <= RequestMax => n + UserTtl <= UserTtl + RequestMax
    BY AccessNumbers
  <2>3. mine.ago = x.ago /\ mine.left = UserTtl /\ mine.user = u OBVIOUS
  <2> HIDE DEF mine, x
  <2> QED BY <1>3, <2>1, <2>2, <2>3
<1>5. /\ kept \in Seq(Access!Entry) /\ Len(kept) < CacheMax
      /\ \A i, j \in DOMAIN kept : kept[i].user = kept[j].user => i = j
      /\ \A i \in DOMAIN kept :
           kept[i].left > 0 => kept[i].ago + kept[i].left <= UserTtl + RequestMax
  BY CacheKept
<1>6. cache' = IF \E i \in DOMAIN kept : kept[i].user = u
               THEN [i \in DOMAIN kept |-> IF kept[i].user = u THEN mine ELSE kept[i]]
               ELSE Append(kept, mine)
  BY DEF Access!Told, Access!Put
<1> HIDE DEF x, u, mine, kept
<1>7. Len(kept) \in Nat /\ DOMAIN kept = 1..Len(kept) BY <1>5
<1>8. CASE \E i \in DOMAIN kept : kept[i].user = u
  <2>1. cache' = [i \in DOMAIN kept |-> IF kept[i].user = u THEN mine ELSE kept[i]]
    BY <1>6, <1>8
  <2>2. cache' \in [DOMAIN kept -> Access!Entry] BY <1>4, <1>5, <2>1
  <2>3. cache' \in Seq(Access!Entry) /\ Len(cache') = Len(kept) /\ DOMAIN cache' = DOMAIN kept
    BY <1>5, <2>2, MappedSeq
  <2>4. \A i \in DOMAIN kept : cache'[i] = IF kept[i].user = u THEN mine ELSE kept[i]
    BY <2>1
  <2>5. \A i \in DOMAIN kept : cache'[i].user = kept[i].user BY <1>4, <2>4
  <2>6. \A i, j \in DOMAIN cache' : cache'[i].user = cache'[j].user => i = j
    BY <1>5, <2>3, <2>5
  <2>7. \A i \in DOMAIN cache' :
          cache'[i].left > 0 => cache'[i].ago + cache'[i].left <= UserTtl + RequestMax
    BY <1>4, <1>5, <2>3, <2>4
  <2>8. Len(cache') <= CacheMax BY <1>5, <1>7, <2>3, AccessNumbers
  <2> QED BY <2>3, <2>6, <2>7, <2>8 DEF CacheOK
<1>9. CASE ~\E i \in DOMAIN kept : kept[i].user = u
  <2>1. cache' = Append(kept, mine) BY <1>6, <1>9
  <2>2. /\ cache' \in Seq(Access!Entry) /\ Len(cache') = Len(kept) + 1
        /\ \A i \in 1..Len(kept) : cache'[i] = kept[i]
        /\ cache'[Len(kept) + 1] = mine
    BY <1>4, <1>5, <2>1, AppendProperties
  <2>3. DOMAIN cache' = DOMAIN kept \cup {Len(kept) + 1} BY <1>7, <2>2
  <2>4. \A i \in DOMAIN kept : cache'[i] = kept[i] BY <1>7, <2>2
  <2>5. \A i, j \in DOMAIN cache' : cache'[i].user = cache'[j].user => i = j
    BY <1>4, <1>5, <1>9, <2>2, <2>3, <2>4
  <2>6. \A i \in DOMAIN cache' :
          cache'[i].left > 0 => cache'[i].ago + cache'[i].left <= UserTtl + RequestMax
    BY <1>4, <1>5, <2>2, <2>3, <2>4
  <2>7. Len(cache') <= CacheMax BY <1>5, <1>7, <2>2, AccessNumbers
  <2> QED BY <2>2, <2>5, <2>6, <2>7 DEF CacheOK
<1> QED BY <1>8, <1>9

(* The answer of Privy authorizes.                                            *)
LEMMA ToldStep ==
  ASSUME RequestsOK, NEW r \in Slot, Access!Told(r)
  PROVE  RequestsOK'
<1> DEFINE x == request[r]
<1>1. x \in Access!Request /\ Access!RequestFresh(x) BY DEF RequestsOK
<1>2. x.pc = "told" /\ Access!Become(r, Access!Authorized(x, x.wallets, x.ago))
  BY DEF Access!Told, Access!At
<1>3. /\ x.wallets \in Access!Lists /\ x.ago \in 0..Access!Horizon
      /\ x.ago <= UserTtl - 1 + RequestMax + x.age
  BY <1>1, <1>2 DEF Access!Request, Access!RequestFresh, Access!ListRecent, Access!Known
<1> HIDE DEF x
<1> QED BY <1>1, <1>2, <1>3, AuthorizedFresh, BecomeKeeps

(* So is an address.                                                          *)
LEMMA PutStep ==
  ASSUME AddrOK, RequestsOK, NEW r \in Slot, Access!PutAddr(r)
  PROVE  AddrOK' /\ RequestsOK'
<1> DEFINE x == request[r]
           w == x.via
           c == [at |-> x.at, ago |-> x.atAgo, left |-> AddrTtl]
           y == [x EXCEPT !.pc = "served"]
<1>1. x \in Access!Request /\ Access!RequestFresh(x) BY DEF RequestsOK
<1>2. x.pc = "put" /\ Access!Become(r, y) /\ addr' \in {addr, [addr EXCEPT ![w] = c]}
  BY DEF Access!PutAddr, Access!At
<1>3. /\ w \in Owned /\ x.at \in Access!Address /\ x.atAgo \in 0..Access!Horizon
      /\ x.atAgo \in Nat /\ x.age \in Nat /\ x.atAgo <= x.age /\ x.age <= RequestMax
      /\ x.ago <= UserTtl - 1 + RequestMax + x.age
  BY <1>1, <1>2, AccessNumbers
  DEF Access!RequestFresh, Access!Request, Access!ListRecent, Access!Known
<1>4. c \in Access!Copy /\ c.ago + c.left <= AddrTtl + RequestMax
  <2>1. c \in Access!Copy BY <1>3, AccessNumbers DEF Access!Copy
  <2>2. \A n, m \in Nat : n <= m /\ m <= RequestMax => n + AddrTtl <= AddrTtl + RequestMax
    BY AccessNumbers
  <2>3. c.ago = x.atAgo /\ c.left = AddrTtl OBVIOUS
  <2> HIDE DEF c, x
  <2> QED BY <1>3, <2>1, <2>2, <2>3
<1>5. AddrOK'
  <2> HIDE DEF c, w
  <2> QED BY <1>2, <1>3, <1>4 DEF AddrOK
<1>6. y \in Access!Request /\ Access!RequestFresh(y)
  <2> HIDE DEF x
  <2>1. y \in Access!Request BY <1>1 DEF Access!Request
  <2>2. y.pc = "served" /\ y.ago = x.ago /\ y.age = x.age /\ y.atAgo = x.atAgo
    BY <1>1 DEF Access!Request
  <2>3. x.atAgo <= AddrTtl - 1 + RequestMax + x.age
    <3>1. \A n, m \in Nat : n <= m => n <= AddrTtl - 1 + RequestMax + m BY AccessNumbers
    <3> QED BY <1>3, <3>1
  <2>4. Access!RequestFresh(y)
    <3> HIDE DEF y
    <3> QED BY <1>3, <2>2, <2>3
        DEF Access!RequestFresh, Access!ListRecent, Access!AddressRecent, Access!Waiting
  <2> QED BY <2>1, <2>4
<1> HIDE DEF y
<1>7. RequestsOK' BY <1>2, <1>6, BecomeKeeps
<1> QED BY <1>5, <1>7

(* A request table that is fresh entry by entry.                              *)
LEMMA RequestsReplaced ==
  ASSUME NEW f \in [Slot -> Access!Request], request' = f,
         \A r \in Slot : Access!RequestFresh(f[r])
  PROVE  RequestsOK'
BY DEF RequestsOK, Access!RequestFresh, Access!ListRecent, Access!AddressRecent, Access!Known,
  Access!First

(* A restart forgets the cache and the requests under way.                    *)
LEMMA RestartStep ==
  ASSUME RequestsOK, Access!Restart
  PROVE  CacheOK' /\ RequestsOK'
<1>1. CacheOK' BY AccessNumbers DEF Access!Restart, CacheOK
<1>2. Access!Idle \in Access!Request /\ Access!RequestFresh(Access!Idle)
  BY IdleRequest, BlankFresh
<1>3. request' = [r \in Slot |-> IF request[r].pc \in Access!Waiting THEN Access!Idle ELSE request[r]]
  BY DEF Access!Restart
<1>4. RequestsOK'
  <2> HIDE DEF RequestsOK
  <2> DEFINE f == [r \in Slot |-> IF request[r].pc \in Access!Waiting THEN Access!Idle ELSE request[r]]
  <2>1. f \in [Slot -> Access!Request] /\ \A r \in Slot : Access!RequestFresh(f[r])
    BY <1>2 DEF RequestsOK
  <2> HIDE DEF f
  <2>2. request' = f BY <1>3 DEF f
  <2> QED BY <2>1, <2>2, RequestsReplaced
<1> QED BY <1>1, <1>4

(* A tick ages a request together with what it has read.                      *)
LEMMA TickedRequest ==
  ASSUME NEW x \in Access!Request, Access!RequestFresh(x), x.pc \in Access!Waiting,
         x.age < RequestMax, NEW n \in 0..Access!Horizon, NEW m \in 0..Access!Horizon,
         x.pc \in {"verify", "privy"} => n = 0,
         x.via = None => m = 0, n <= x.ago + 1, m <= x.atAgo + 1
  PROVE  /\ [x EXCEPT !.age = @ + 1, !.ago = n, !.atAgo = m] \in Access!Request
         /\ Access!RequestFresh([x EXCEPT !.age = @ + 1, !.ago = n, !.atAgo = m])
<1> DEFINE a == x.age + 1
           y == [x EXCEPT !.age = a, !.ago = n, !.atAgo = m]
<1>1. /\ x.age \in Nat /\ x.ago \in Nat /\ x.atAgo \in Nat /\ n \in Nat /\ m \in Nat
  BY AccessNumbers DEF Access!Request
<1>2. a \in 0..RequestMax /\ a \in Nat BY <1>1, AccessNumbers
<1>3. x.ago <= x.age => n <= a BY <1>1
<1>4. x.atAgo <= x.age => m <= a BY <1>1
<1>5. x.ago <= UserTtl - 1 + RequestMax + x.age => n <= UserTtl - 1 + RequestMax + a
  <2>1. \A i, j, k \in Nat : k <= i + 1 /\ i <= UserTtl - 1 + RequestMax + j
                               => k <= UserTtl - 1 + RequestMax + (j + 1)
    BY AccessNumbers
  <2> QED BY <1>1, <2>1
<1>6. x.pc # "served" BY DEF Access!Waiting
<1> HIDE DEF a
<1>7. y \in Access!Request BY <1>2 DEF Access!Request
<1>8. /\ y.pc = x.pc /\ y.user = x.user /\ y.via = x.via /\ y.at = x.at
      /\ y.ago = n /\ y.atAgo = m /\ y.age = a
  BY DEF Access!Request
<1>9. Access!RequestFresh(y)
  <2> HIDE DEF y
  <2> QED BY <1>3, <1>4, <1>5, <1>6, <1>8
      DEF Access!RequestFresh, Access!ListRecent, Access!AddressRecent, Access!Known
<1> QED BY <1>7, <1>9 DEF a

(* Time passes, for the requests, the cache of users and the addresses.       *)
LEMMA TickRequests ==
  ASSUME RequestsOK, Access!Tick
  PROVE  RequestsOK'
<1> DEFINE f == [r \in Slot |->
       IF request[r].pc \notin Access!Waiting THEN Access!Idle
       ELSE [request[r] EXCEPT !.age = @ + 1,
               !.ago = IF request[r].pc \in {"verify", "privy"} \/ request[r].user = None THEN 0
                       ELSE Access!ListAgo(request[r]),
               !.atAgo = IF request[r].via = None \/ request[r].at = agents[request[r].via] THEN 0
                         ELSE Access!Older(@)]]
<1>1. request' = f BY DEF Access!Tick
<1>2. ASSUME NEW r \in Slot PROVE f[r] \in Access!Request /\ Access!RequestFresh(f[r])
  <2> DEFINE x == request[r]
             n == IF x.pc \in {"verify", "privy"} \/ x.user = None THEN 0 ELSE Access!ListAgo(x)
             m == IF x.via = None \/ x.at = agents[x.via] THEN 0 ELSE Access!Older(x.atAgo)
  <2>1. x \in Access!Request /\ Access!RequestFresh(x) BY DEF RequestsOK
  <2>2. f[r] = IF x.pc \notin Access!Waiting THEN Access!Idle
               ELSE [x EXCEPT !.age = @ + 1, !.ago = n, !.atAgo = m]
    OBVIOUS
  <2>3. x.pc \in Access!Waiting => x.age < RequestMax BY DEF Access!Tick
  <2>4. x.ago \in 0..Access!Horizon /\ x.atAgo \in 0..Access!Horizon
        /\ x.ago \in Nat /\ x.atAgo \in Nat
    BY <2>1, AccessNumbers DEF Access!Request
  <2>5. n \in 0..Access!Horizon /\ n <= x.ago + 1
    <3>1. Access!ListAgo(x) \in {0, Access!Older(x.ago)} BY DEF Access!ListAgo
    <3>2. 0 \in 0..Access!Horizon /\ 0 <= x.ago + 1 BY <2>4, AccessNumbers
    <3>3. Access!Older(x.ago) \in 0..Access!Horizon /\ Access!Older(x.ago) <= x.ago + 1
      BY <2>4, AccessNumbers
    <3>4. n \in {0, Access!Older(x.ago)} BY <3>1
    <3> HIDE DEF n, x
    <3> QED BY <3>2, <3>3, <3>4
  <2>6. m \in 0..Access!Horizon /\ m <= x.atAgo + 1
    <3>1. 0 \in 0..Access!Horizon /\ 0 <= x.atAgo + 1 BY <2>4, AccessNumbers
    <3>2. Access!Older(x.atAgo) \in 0..Access!Horizon /\ Access!Older(x.atAgo) <= x.atAgo + 1
      BY <2>4, AccessNumbers
    <3>3. m \in {0, Access!Older(x.atAgo)} OBVIOUS
    <3> HIDE DEF m, x
    <3> QED BY <3>1, <3>2, <3>3
  <2>7. (x.pc \in {"verify", "privy"} => n = 0) /\ (x.via = None => m = 0) OBVIOUS
  <2>8. Access!Idle \in Access!Request /\ Access!RequestFresh(Access!Idle)
    BY IdleRequest, BlankFresh
  <2> HIDE DEF x, n, m, f
  <2>9. x.pc \in Access!Waiting =>
          /\ [x EXCEPT !.age = @ + 1, !.ago = n, !.atAgo = m] \in Access!Request
          /\ Access!RequestFresh([x EXCEPT !.age = @ + 1, !.ago = n, !.atAgo = m])
    BY <2>1, <2>3, <2>5, <2>6, <2>7, TickedRequest
  <2>10. CASE x.pc \in Access!Waiting
    <3>1. f[r] = [x EXCEPT !.age = @ + 1, !.ago = n, !.atAgo = m] BY <2>2, <2>10
    <3> QED BY <2>9, <2>10, <3>1
  <2>11. CASE x.pc \notin Access!Waiting
    <3>1. f[r] = Access!Idle BY <2>2, <2>11
    <3> QED BY <2>8, <3>1
  <2> QED BY <2>10, <2>11
<1>3. f \in [Slot -> Access!Request]
  <2> DEFINE g(r) == f[r]
  <2>1. f = [r \in Slot |-> g(r)] OBVIOUS
  <2> HIDE DEF f
  <2> QED BY <1>2, <2>1
<1> HIDE DEF f
<1> QED BY <1>1, <1>2, <1>3, RequestsReplaced

(* An entry may grow staler by what its time grows shorter.                   *)
LEMMA TickCache ==
  ASSUME CacheOK, Access!Tick
  PROVE  CacheOK'
<1> DEFINE less(i) == IF cache[i].left > 0 THEN cache[i].left - 1 ELSE 0
           entry(i) == [cache[i] EXCEPT !.left = less(i), !.ago = Access!ListAgo(cache[i])]
<1>1. cache' = [i \in DOMAIN cache |-> entry(i)] BY DEF Access!Tick
<1>2. ASSUME NEW i \in DOMAIN cache
      PROVE  /\ entry(i) \in Access!Entry /\ entry(i).user = cache[i].user
             /\ entry(i).left > 0 => entry(i).ago + entry(i).left <= UserTtl + RequestMax
  <2> DEFINE x == cache[i]
             l == less(i)
             n == Access!ListAgo(x)
             y == [x EXCEPT !.left = l, !.ago = n]
  <2>1. x \in Access!Entry BY DEF CacheOK
  <2>2. /\ x.left \in 0..UserTtl /\ x.ago \in 0..Access!Horizon
        /\ x.left \in Nat /\ x.ago \in Nat
    BY <2>1, AccessNumbers DEF Access!Entry
  <2>3. x.left > 0 => x.ago + x.left <= UserTtl + RequestMax BY DEF CacheOK
  <2>4. l \in 0..UserTtl /\ l \in Nat /\ (l > 0 => x.left > 0 /\ l + 1 = x.left)
    <3>1. l = IF x.left > 0 THEN x.left - 1 ELSE 0 OBVIOUS
    <3> HIDE DEF l, x
    <3> QED BY <2>2, <3>1, AccessNumbers
  <2>5. n \in 0..Access!Horizon /\ n \in Nat /\ n <= x.ago + 1
    <3>1. n \in {0, Access!Older(x.ago)} BY DEF Access!ListAgo
    <3>2. 0 \in 0..Access!Horizon /\ 0 <= x.ago + 1 BY <2>2, AccessNumbers
    <3>3. Access!Older(x.ago) \in 0..Access!Horizon /\ Access!Older(x.ago) <= x.ago + 1
      BY <2>2, AccessNumbers
    <3> HIDE DEF n, x
    <3>4. n \in 0..Access!Horizon /\ n <= x.ago + 1 BY <3>1, <3>2, <3>3
    <3> QED BY <3>4, AccessNumbers
  <2>6. entry(i) = y OBVIOUS
  <2> HIDE DEF x, l, n, entry
  <2>7. y \in Access!Entry /\ y.user = x.user /\ y.left = l /\ y.ago = n
    BY <2>1, <2>4, <2>5 DEF Access!Entry
  <2>8. l > 0 => n + l <= UserTtl + RequestMax
    <3>1. \A a, b, c, d \in Nat : a <= b + 1 /\ c + 1 = d /\ b + d <= UserTtl + RequestMax
                                    => a + c <= UserTtl + RequestMax
      BY AccessNumbers
    <3> QED BY <2>2, <2>3, <2>4, <2>5, <3>1
  <2> QED BY <2>6, <2>7, <2>8 DEF x
<1> HIDE DEF entry
<1>3. cache' \in [DOMAIN cache -> Access!Entry] BY <1>1, <1>2
<1>4. \A i \in DOMAIN cache : cache'[i] = entry(i) BY <1>1
<1>5. cache \in Seq(Access!Entry) /\ Len(cache) <= CacheMax BY DEF CacheOK
<1>6. cache' \in Seq(Access!Entry) /\ Len(cache') = Len(cache) /\ DOMAIN cache' = DOMAIN cache
  BY <1>3, <1>5, MappedSeq
<1>7. \A i, j \in DOMAIN cache' : cache'[i].user = cache'[j].user => i = j
  BY <1>2, <1>4, <1>6 DEF CacheOK
<1>8. \A i \in DOMAIN cache' :
        cache'[i].left > 0 => cache'[i].ago + cache'[i].left <= UserTtl + RequestMax
  BY <1>2, <1>4, <1>6
<1> QED BY <1>5, <1>6, <1>7, <1>8 DEF CacheOK

(* So may an address.                                                         *)
LEMMA TickAddr ==
  ASSUME AddrOK, Access!Tick
  PROVE  AddrOK'
<1> DEFINE copy(w) == [addr[w] EXCEPT !.left = @ - 1,
                         !.ago = IF addr[w].at = agents[w] THEN 0 ELSE Access!Older(@)]
<1>1. addr' = [w \in Owned |-> IF addr[w] = None \/ addr[w].left = 1 THEN None ELSE copy(w)]
  BY DEF Access!Tick
<1>2. ASSUME NEW w \in Owned, addr[w] # None, addr[w].left # 1
      PROVE  copy(w) \in Access!Copy /\ copy(w).ago + copy(w).left <= AddrTtl + RequestMax
  <2> DEFINE x == addr[w]
             l == x.left - 1
             n == IF x.at = agents[w] THEN 0 ELSE Access!Older(x.ago)
             y == [x EXCEPT !.left = l, !.ago = n]
  <2>1. x \in Access!Copy /\ x.ago + x.left <= AddrTtl + RequestMax BY <1>2 DEF AddrOK
  <2>2. /\ x.left \in 1..AddrTtl /\ x.ago \in 0..Access!Horizon
        /\ x.left \in Nat /\ x.ago \in Nat /\ x.left # 1
    BY <1>2, <2>1, AccessNumbers DEF Access!Copy
  <2>3. l \in 1..AddrTtl /\ l \in Nat /\ l + 1 = x.left
    <3> HIDE DEF x
    <3> QED BY <2>2, AccessNumbers
  <2>4. n \in 0..Access!Horizon /\ n \in Nat /\ n <= x.ago + 1
    <3>1. n \in {0, Access!Older(x.ago)} OBVIOUS
    <3>2. 0 \in 0..Access!Horizon /\ 0 <= x.ago + 1 BY <2>2, AccessNumbers
    <3>3. Access!Older(x.ago) \in 0..Access!Horizon /\ Access!Older(x.ago) <= x.ago + 1
      BY <2>2, AccessNumbers
    <3> HIDE DEF n, x
    <3>4. n \in 0..Access!Horizon /\ n <= x.ago + 1 BY <3>1, <3>2, <3>3
    <3> QED BY <3>4, AccessNumbers
  <2>5. copy(w) = y OBVIOUS
  <2> HIDE DEF x, l, n, copy
  <2>6. y \in Access!Copy /\ y.left = l /\ y.ago = n BY <2>1, <2>3, <2>4 DEF Access!Copy
  <2>7. n + l <= AddrTtl + RequestMax
    <3>1. \A a, b, c, d \in Nat : a <= b + 1 /\ c + 1 = d /\ b + d <= AddrTtl + RequestMax
                                    => a + c <= AddrTtl + RequestMax
      BY AccessNumbers
    <3> QED BY <2>1, <2>2, <2>3, <2>4, <3>1
  <2> QED BY <2>5, <2>6, <2>7
<1> HIDE DEF copy
<1>3. addr' \in [Owned -> {None} \cup Access!Copy] BY <1>1, <1>2
<1>4. \A w \in Owned : addr'[w] # None => addr'[w].ago + addr'[w].left <= AddrTtl + RequestMax
  BY <1>1, <1>2
<1> QED BY <1>3, <1>4 DEF AddrOK

(* One step per action; only the parts that the action disturbs.               *)
LEMMA AccessStep ==
  ASSUME Access!AccessInv, Access!Next
  PROVE  Access!AccessInv'
<1>1. OutsideOK /\ CacheOK /\ AddrOK /\ RequestsOK BY AccessParts
<1> SUFFICES OutsideOK' /\ CacheOK' /\ AddrOK' /\ RequestsOK'
  BY DEF OutsideOK, CacheOK, AddrOK, RequestsOK, Access!AccessInv, Access!TypeOK, Access!CopiesFresh
<1>2. UNCHANGED <<linked, agents, changed>> => OutsideOK'
  BY <1>1 DEF OutsideOK, Access!LinksOK, Access!RowsOK
<1>3. UNCHANGED cache => CacheOK' BY <1>1 DEF CacheOK
<1>4. UNCHANGED addr => AddrOK' BY <1>1 DEF AddrOK
<1>5. UNCHANGED request => RequestsOK'
  BY <1>1 DEF RequestsOK, Access!RequestFresh, Access!ListRecent, Access!AddressRecent,
    Access!Known, Access!First
<1>6. ASSUME NEW r \in Slot, NEW asks \in Serves[r], NEW lower \in BOOLEAN,
             Access!Arrive(r, asks[1], asks[2], asks[3], lower)
      PROVE  OutsideOK' /\ CacheOK' /\ AddrOK' /\ RequestsOK'
  <2>1. RequestsOK' BY <1>1, <1>6, ArriveStep
  <2> QED BY <1>2, <1>3, <1>4, <1>6, <2>1 DEF Access!Arrive, Access!outside
<1>7. ASSUME NEW r \in Slot, Access!CronAsks(r)
      PROVE  OutsideOK' /\ CacheOK' /\ AddrOK' /\ RequestsOK'
  <2>1. RequestsOK' BY <1>1, <1>7, CronAsksStep
  <2> QED BY <1>2, <1>3, <1>4, <1>7, <2>1 DEF Access!CronAsks, Access!outside
<1>8. ASSUME NEW r \in Slot, Access!LookUp(r)
      PROVE  OutsideOK' /\ CacheOK' /\ AddrOK' /\ RequestsOK'
  <2>1. RequestsOK' BY <1>1, <1>8, LookUpStep
  <2> QED BY <1>2, <1>3, <1>4, <1>8, <2>1 DEF Access!LookUp, Access!outside
<1>9. ASSUME NEW r \in Slot,
             \/ Access!Refuse(r) \/ Access!ReadOwn(r) \/ Access!Evaluate(r)
             \/ Access!ReadHealth(r) \/ Access!ReadStatus(r)
      PROVE  OutsideOK' /\ CacheOK' /\ AddrOK' /\ RequestsOK'
  <2>1. RequestsOK' BY <1>1, <1>9, AnswersStep
  <2>2. UNCHANGED <<linked, agents, changed, cache, addr>>
    BY <1>9 DEF Access!Refuse, Access!ReadOwn, Access!Evaluate, Access!ReadHealth,
      Access!ReadStatus, Access!outside
  <2> QED BY <1>2, <1>3, <1>4, <2>1, <2>2
<1>10. ASSUME NEW r \in Slot, Access!Sync(r)
       PROVE  OutsideOK' /\ CacheOK' /\ AddrOK' /\ RequestsOK'
  <2>1. RequestsOK' BY <1>1, <1>10, AnswersStep
  <2>2. OutsideOK' BY <1>1, <1>10, SyncStep
  <2> QED BY <1>3, <1>4, <1>10, <2>1, <2>2 DEF Access!Sync
<1>11. ASSUME NEW r \in Slot, Access!ReadPrivy(r)
       PROVE  OutsideOK' /\ CacheOK' /\ AddrOK' /\ RequestsOK'
  <2>1. RequestsOK' BY <1>1, <1>11, ReadPrivyStep
  <2> QED BY <1>2, <1>3, <1>4, <1>11, <2>1 DEF Access!ReadPrivy, Access!outside
<1>12. ASSUME NEW r \in Slot, Access!Told(r)
       PROVE  OutsideOK' /\ CacheOK' /\ AddrOK' /\ RequestsOK'
  <2>1. CacheOK' BY <1>1, <1>12, ToldCache
  <2>2. RequestsOK' BY <1>1, <1>12, ToldStep
  <2> QED BY <1>2, <1>4, <1>12, <2>1, <2>2 DEF Access!Told, Access!outside
<1>13. ASSUME NEW r \in Slot, Access!ResolveCached(r)
       PROVE  OutsideOK' /\ CacheOK' /\ AddrOK' /\ RequestsOK'
  <2>1. RequestsOK' BY <1>1, <1>13, ResolveStep
  <2> QED BY <1>2, <1>3, <1>4, <1>13, <2>1 DEF Access!ResolveCached, Access!outside
<1>14. ASSUME NEW r \in Slot, Access!ReadRow(r) \/ Access!ReadRowFails(r)
       PROVE  OutsideOK' /\ CacheOK' /\ AddrOK' /\ RequestsOK'
  <2>1. RequestsOK' BY <1>1, <1>14, ReadRowStep
  <2> QED BY <1>2, <1>3, <1>4, <1>14, <2>1
      DEF Access!ReadRow, Access!ReadRowFails, Access!outside
<1>15. ASSUME NEW r \in Slot, Access!PutAddr(r)
       PROVE  OutsideOK' /\ CacheOK' /\ AddrOK' /\ RequestsOK'
  <2>1. AddrOK' /\ RequestsOK' BY <1>1, <1>15, PutStep
  <2> QED BY <1>2, <1>3, <1>15, <2>1 DEF Access!PutAddr, Access!outside
<1>16. ASSUME NEW u \in User, NEW q \in Access!Lists, Access!Relink(u, q)
       PROVE  OutsideOK' /\ CacheOK' /\ AddrOK' /\ RequestsOK'
  <2>1. OutsideOK' BY <1>1, <1>16, RelinkStep
  <2> QED BY <1>3, <1>4, <1>5, <1>16, <2>1 DEF Access!Relink
<1>17. ASSUME NEW w \in Owned, NEW a, Access!Reregister(w, a)
       PROVE  OutsideOK' /\ CacheOK' /\ AddrOK' /\ RequestsOK'
  <2>1. OutsideOK' BY <1>1, <1>17, ReregisterStep
  <2> QED BY <1>3, <1>4, <1>5, <1>17, <2>1 DEF Access!Reregister
<1>18. CASE Access!Restart
  <2>1. CacheOK' /\ RequestsOK' BY <1>1, <1>18, RestartStep
  <2> QED BY <1>2, <1>4, <1>18, <2>1 DEF Access!Restart, Access!outside
<1>19. CASE Access!Tick
  <2>1. RequestsOK' /\ CacheOK' /\ AddrOK' BY <1>1, <1>19, TickRequests, TickCache, TickAddr
  <2> QED BY <1>2, <1>19, <2>1 DEF Access!Tick, Access!outside
<1> QED
  BY <1>6, <1>7, <1>8, <1>9, <1>10, <1>11, <1>12, <1>13, <1>14, <1>15, <1>16, <1>17, <1>18, <1>19
  DEF Access!Next

(* What a request is granted is part of its freshness.                        *)
LEMMA AccessGranted == Access!AccessInv => Access!GrantsRecent
BY DEF Access!AccessInv, Access!TypeOK, Access!RequestFresh, Access!GrantsRecent

-------------------------------------------------------------------------------
(* The suite: one part runs, the others stand still. *)

Suite == <<part, vars, formVars, keyVars, walletVars, accessVars>>

(* The parts run by themselves, or not at all.                                *)
LEMMA FormRuns ==
  ASSUME part = "form" => Form!FormInv, [SuiteNext]_Suite
  PROVE  (part = "form" => Form!FormInv)'
<1>1. CASE part = "form" /\ Form!Next /\ UNCHANGED part BY <1>1, FormStep
<1>2. CASE UNCHANGED <<part, formVars>>
  BY <1>2 DEF formVars, Form!FormInv, Form!TypeOK, Form!LookupCurrent, Form!FieldShown,
    Form!HashBacked, Form!CallsAttended, Form!View, Form!Working
<1> QED BY <1>1, <1>2 DEF SuiteNext, Suite

(* So does the migration,                                                     *)
LEMMA KeysRun ==
  ASSUME part = "keys" => Keys!MigrationSound, [SuiteNext]_Suite
  PROVE  (part = "keys" => Keys!MigrationSound)'
<1>1. CASE part = "keys" /\ Keys!Next /\ UNCHANGED part BY <1>1, MigrationStep
<1>2. CASE UNCHANGED <<part, keyVars>>
  BY <1>2 DEF keyVars, Keys!MigrationSound, Keys!TypeOK, Keys!KeepsSecrets,
    Keys!LeavesNothingPlain, Keys!PendingAsSeen
<1> QED BY <1>1, <1>2 DEF SuiteNext, Suite

(* the choice of the wallet,                                                  *)
LEMMA WalletRuns ==
  ASSUME part = "wallet" => Selection!SelectionInv, [SuiteNext]_Suite
  PROVE  (part = "wallet" => Selection!SelectionInv)'
<1>1. CASE part = "wallet" /\ Selection!Next /\ UNCHANGED part BY <1>1, SelectionStep
<1>2. CASE UNCHANGED <<part, walletVars>>
  BY <1>2 DEF walletVars, Selection!SelectionInv, Selection!TypeOK, Selection!RendersFollow,
    Selection!ClickStands, Selection!Upcoming, Selection!Connected, Selection!connectedWallets,
    Selection!Fallback, Selection!FirstOf, Selection!OfKind
<1> QED BY <1>1, <1>2 DEF SuiteNext, Suite

(* and the access.                                                            *)
LEMMA AccessRuns ==
  ASSUME part = "access" => Access!AccessInv, [SuiteNext]_Suite
  PROVE  (part = "access" => Access!AccessInv)'
<1>1. CASE part = "access" /\ Access!Next /\ UNCHANGED part BY <1>1, AccessStep
<1>2. CASE UNCHANGED <<part, accessVars>>
  BY <1>2 DEF accessVars, Access!AccessInv, Access!TypeOK, Access!LinksOK, Access!RowsOK,
    Access!CopiesFresh, Access!RequestFresh, Access!ListRecent, Access!AddressRecent,
    Access!Known, Access!First
<1> QED BY <1>1, <1>2 DEF SuiteNext, Suite

(* The success screen names whom its transaction has paid, for any number of  *)
(* calls, as long as none outlives its preview and no lookup its field.       *)
THEOREM PayeeIsNamed == SuiteSpec => []SuccessNamesPayee
<1>1. SuiteInit => (part = "form" => Form!FormInv) BY FormInit DEF SuiteInit
<1>2. (part = "form" => Form!FormInv) /\ [SuiteNext]_Suite => (part = "form" => Form!FormInv)'
  BY FormRuns
<1>3. (part = "form" => Form!FormInv) => SuccessNamesPayee BY PayeeNamed DEF SuccessNamesPayee
<1> QED BY <1>1, <1>2, <1>3, PTL DEF SuiteSpec, Suite

(* For any users, sessions and keys, also wrong ones: a run of the migration  *)
(* (scripts/migrate-encrypt-keys.ts) that races no request keeps every        *)
(* session, wherever it dies, and a user it reports no error for is encrypted. *)
THEOREM MigrationKeepsSessions == SuiteSpec => []MigrationSound
<1>1. SuiteInit => (part = "keys" => Keys!MigrationSound) BY MigrationInit DEF SuiteInit
<1>2. (part = "keys" => Keys!MigrationSound) /\ [SuiteNext]_Suite
        => (part = "keys" => Keys!MigrationSound)'
  BY KeysRun
<1>3. (part = "keys" => Keys!MigrationSound) => MigrationSound BY DEF MigrationSound
<1> QED BY <1>1, <1>2, <1>3, PTL DEF SuiteSpec, Suite

(* For any users and wallets: when the renders of the provider have settled   *)
(* (useWalletSelection.ts), the wallet in use is connected, and the one       *)
(* clicked, or else the best.                                                 *)
THEOREM SelectionAlwaysSettles == SuiteSpec => []SelectionSettles
<1>1. SuiteInit => (part = "wallet" => Selection!SelectionInv) BY SelectionInit DEF SuiteInit
<1>2. (part = "wallet" => Selection!SelectionInv) /\ [SuiteNext]_Suite
        => (part = "wallet" => Selection!SelectionInv)'
  BY WalletRuns
<1>3. (part = "wallet" => Selection!SelectionInv) => SelectionSettles
  BY SelectionSettled DEF SelectionSettles
<1> QED BY <1>1, <1>2, <1>3, PTL DEF SuiteSpec, Suite

(* For any users, wallets, registrations and lifetimes: what a request is     *)
(* granted rests on a list its user had, and the address it is served on one  *)
(* the agent worked at, no longer ago than an entry lives (middleware.ts,     *)
(* resolve-agent-address.ts), whatever is unlinked or cleared between two     *)
(* awaits and however requests, restarts and evictions interleave.            *)
THEOREM GrantsStayRecent == SuiteSpec => []GrantsRecent
<1>1. SuiteInit => (part = "access" => Access!AccessInv) BY AccessInit DEF SuiteInit
<1>2. (part = "access" => Access!AccessInv) /\ [SuiteNext]_Suite
        => (part = "access" => Access!AccessInv)'
  BY AccessRuns
<1>3. (part = "access" => Access!AccessInv) => GrantsRecent
  BY AccessGranted DEF GrantsRecent
<1> QED BY <1>1, <1>2, <1>3, PTL DEF SuiteSpec, Suite
===============================================================================
