-------------------------------- MODULE Wallets --------------------------------
(* What the modules about users share: their addresses, and the value that    *)
(* stands for null.  Each assumes of None what it needs.                      *)
CONSTANTS
  User,     \* wallet addresses, lower-cased
  None      \* no user, no key, no lock
===============================================================================
