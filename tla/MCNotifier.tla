----------------------------- MODULE MCNotifier -----------------------------
(***************************************************************************)
(* One Realm with one observed collection, for TLC.                        *)
(***************************************************************************)
EXTENDS Notifier, TLC

CONSTANTS a,  \* the Realm
          n1, \* the notifier
          t1  \* the token

OneRealm == n1 :> a
OneNotifier == t1 :> n1
=============================================================================
