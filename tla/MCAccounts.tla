----------------------------- MODULE MCAccounts -----------------------------
(***************************************************************************)
(* Small instances of Accounts for TLC.                                     *)
(***************************************************************************)
EXTENDS Accounts, TLC

CONSTANTS one, other, ann, bob, k1, k2, k3, net

Row(id, u, k, l) == [id |-> id, username |-> u, key |-> k, level |-> l, viewOnly |-> FALSE,
                     disabled |-> FALSE, byUser |-> FALSE]

(* An Admin and a user.                                                      *)
OneEach == {Row(1, ann, k1, kAccessAdmin), Row(2, bob, k2, kAccessUser)}
OwnKeys == {kOptionSelfServiceKeys}
KeyWork == {"create", "deleteKey", "keyOff", "keysOff", "addOwn", "removeOwn"}

(* An Admin, and a Net Admin who has a net.                                  *)
AdminAndNetAdmin == {Row(1, ann, k1, kAccessAdmin), Row(2, bob, k2, kAccessNetAdmin)}
Restricted == {kOptionRestrictedNets}
BobsNet == {<<bob, net>>}
NetWork == {"console", "end", "option", "rename", "deleteUser", "grant", "createNet",
            "deleteNet"}

Choice(l, v) == [level |-> l, viewOnly |-> v]
Promoting == {Choice(kAccessAdmin, FALSE)}
Watching == {Choice(kAccessUser, TRUE)}

Symmetry == Permutations(Sessions)
=============================================================================
