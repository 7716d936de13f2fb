------------------------------ MODULE TransferSuite ------------------------------
(***************************************************************************)
(* The two ends of a transfer and what they rest on, side by side: the       *)
(* endpoint that sends (TransferSend), the dialog that calls it (SendForm),  *)
(* the wallet the browser sends from (WalletSelection), the right to an      *)
(* address (AgentAccess) and the migration that encrypts the stored sessions *)
(* (KeyMigration).  `part` says which of them a behaviour runs; the          *)
(* variables of the others are left out, those of TransferSend keep their    *)
(* initial values.                                                           *)
(***************************************************************************)
EXTENDS TransferSend

CONSTANTS
  Name, Addr, Call,                         \* the dialog
  Migrated, Secret, Key, AppKey, Tables,    \* the migration, of the rows of Migrated
  User, Wallet, Kind, Switches,             \* the wallets of one browser
  Owned, Smart, Linked0, Rows0, Slot, Serves,
  UserTtl, CacheMax, AddrTtl, RequestMax, Relinks    \* the access

VARIABLES
  part,       \* the variables of the parts are explained in their modules
  recipient, preview, phase, hash, open, timer, awaited, orphans, call, paid, session, strayed,
  table, mode, key, seen, todo, errors, written, raced, putBack,
  eth, sol, user, choice, selected, queued, manual, due, chosen, strained, renders,
  linked, agents, cache, addr, request, changed

Form == INSTANCE SendForm

Keys == INSTANCE KeyMigration WITH User <- Migrated, lost <- putBack

Selection == INSTANCE WalletSelection WITH
  MaxChanges <- Switches, stored <- choice, raced <- strained, changes <- renders

Access == INSTANCE AgentAccess WITH
  Wallet <- Owned, Req <- Slot, HandlerMax <- RequestMax, MaxChanges <- Relinks,
  rows <- agents, req <- request, changes <- changed

ASSUME SuiteAssumption ==
  /\ None \notin Name \cup Addr \cup Call
  /\ None \notin Keys!Mode \cup Keys!Cell /\ AppKey \in Key /\ "plain" \notin Key
  /\ {None, "nothing"} \cap Wallet = {} /\ None # "nothing" /\ Switches \in Nat
  /\ {RequestMax, Relinks} \subseteq Nat /\ {UserTtl, CacheMax, AddrTtl} \subseteq Nat \ {0}
  /\ \A l \in Linked0 : Access!LinksOK(l)
  /\ \A a \in Rows0 : Access!RowsOK(a)
  /\ Serves \in [Slot -> SUBSET (User \X Access!Route \X Owned)]
  /\ None \notin Access!Copy

formVars == <<recipient, preview, phase, hash, open, timer, awaited, orphans,
              call, paid, session, strayed>>
keyVars == <<table, mode, key, seen, todo, errors, written, raced, putBack>>
walletVars == <<eth, sol, user, choice, selected, queued, manual, due, chosen, strained, renders>>
accessVars == <<linked, agents, cache, addr, request, changed>>

NoForm ==
  /\ recipient = None /\ preview = None /\ phase = None /\ hash = None /\ open = None
  /\ timer = None /\ awaited = None /\ orphans = None /\ call = None /\ paid = None
  /\ session = None /\ strayed = None
NoKeys ==
  /\ table = None /\ mode = None /\ key = None /\ seen = None /\ todo = None
  /\ errors = None /\ written = None /\ raced = None /\ putBack = None
NoWallet ==
  /\ eth = None /\ sol = None /\ user = None /\ choice = None /\ selected = None
  /\ queued = None /\ manual = None /\ due = None /\ chosen = None /\ strained = None
  /\ renders = None
NoAccess ==
  /\ linked = None /\ agents = None /\ cache = None /\ addr = None /\ request = None
  /\ changed = None

SuiteInit ==
  /\ part \in {"endpoint", "form", "keys", "wallet", "access"} /\ Init
  /\ IF part = "form" THEN Form!Init ELSE NoForm
  /\ IF part = "keys" THEN Keys!Init ELSE NoKeys
  /\ IF part = "wallet" THEN Selection!Init ELSE NoWallet
  /\ IF part = "access" THEN Access!Init ELSE NoAccess

SuiteNext ==
  \/ part = "endpoint" /\ Next /\ UNCHANGED <<part, formVars, keyVars, walletVars, accessVars>>
  \/ part = "form" /\ Form!Next /\ UNCHANGED <<part, vars, keyVars, walletVars, accessVars>>
  \/ part = "keys" /\ Keys!Next /\ UNCHANGED <<part, vars, formVars, walletVars, accessVars>>
  \/ part = "wallet" /\ Selection!Next /\ UNCHANGED <<part, vars, formVars, keyVars, accessVars>>
  \/ part = "access" /\ Access!Next /\ UNCHANGED <<part, vars, formVars, keyVars, walletVars>>

SuiteSpec == SuiteInit /\ [][SuiteNext]_<<part, vars, formVars, keyVars, walletVars, accessVars>>

(* The success screen names whom its transaction has paid, unless a call      *)
(* outlived its preview or a lookup its field; with the invariant it rests on. *)
SuccessNamesPayee == part = "form" => Form!FormInv /\ Form!SuccessNamesPayee

(* A migration that races no request keeps every session, and leaves none     *)
(* plain that it reports no error for.                                        *)
MigrationSound == part = "keys" => Keys!MigrationSound

(* When the renders have settled, the wallet in use is connected, and the     *)
(* chosen one, or else the best; with the invariant this rests on.            *)
SelectionSettles == part = "wallet" => Selection!SelectionInv /\ Selection!SelectionSettles

(* What a request is granted rests on a list of wallets its user had, and its *)
(* answer on an address the agent worked at, not long ago; with the invariant *)
(* that says why.                                                             *)
GrantsRecent == part = "access" => Access!AccessInv /\ Access!GrantsRecent
===============================================================================
