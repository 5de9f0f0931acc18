-------------------------------- MODULE Gmac --------------------------------
(***************************************************************************)
(* The MAC keys of lib/src/gkcrypt.c: a key serves Refresh positions of the *)
(* key stream, the current one is kept, and an older one is derived again  *)
(* for the packet that needs it.  A key is its index.                      *)
(***************************************************************************)
EXTENDS Naturals

CONSTANT Refresh   \* CHIAKI_GKCRYPT_GMAC_KEY_REFRESH_KEY_POS

ASSUME GmacAssumption == Refresh \in Nat \ {0}

KeyIndex(pos) == (IF pos > 0 THEN pos - 1 ELSE 0) \div Refresh

\* chiaki_gkcrypt_gmac: the key it uses, and the one that is current after it.
MacKey(current, pos) == IF KeyIndex(pos) # current THEN KeyIndex(pos) ELSE current
NewCurrent(current, pos) == IF KeyIndex(pos) > current THEN KeyIndex(pos) ELSE current
=============================================================================
