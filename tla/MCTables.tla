------------------------------ MODULE MCTables ------------------------------
(***************************************************************************)
(* Accounts, the catalogue of roles and permissions, and the replacement   *)
(* of join rows, for TLC.  Nothing that one of them reads is written by    *)
(* another, so a behaviour of the three is one of each side by side; here  *)
(* one moves and the others rest, which is the sum of their states and not *)
(* the product.                                                            *)
(***************************************************************************)
EXTENDS Accounts, TLC

CONSTANTS SystemRole, OwnRole, OwnPermission, RoleName, Key,   \* of Catalogue
          admin, editor, readUser,
          Replacement, Row                                     \* of JoinRows

MCNameOf == SystemRole :> admin @@ OwnRole :> editor @@ OwnPermission :> readUser

VARIABLES
    moves,
    name, itemPc, itemKind, itemArg, wanted, insert, itemAnswer, itemStale, rivalled,
    referenced, rows, rowPc, ids, doomed, added, alone, overlap, lock, want

itemVars == <<name, itemPc, itemKind, itemArg, wanted, insert, itemAnswer, itemStale, rivalled>>
rowVars  == <<referenced, rows, rowPc, ids, doomed, added, alone, overlap, lock, want>>
allVars  == <<moves, vars, itemVars, rowVars>>

C == INSTANCE Catalogue WITH
        NameOf <- MCNameOf, pc <- itemPc, kind <- itemKind, arg <- itemArg,
        answer <- itemAnswer, stale <- itemStale
J == INSTANCE JoinRows WITH Request <- Replacement, pc <- rowPc

ASSUME TablesAssumption == C!CatalogueAssumption /\ J!KeyAssumption

MCInit ==
    /\ moves \in {"accounts", "catalogue", "joins"}
    /\ Init /\ C!Init /\ J!Init
    /\ moves # "accounts"  => kind = [r \in Request |-> "create"] /\ emailOf[Initial] = None
    /\ moves # "catalogue" => itemKind = [r \in Request |-> "createRole"]
    /\ moves # "joins"     => rows = {}

MCNext ==
    \/ moves = "accounts"  /\ Next   /\ UNCHANGED <<moves, itemVars, rowVars>>
    \/ moves = "catalogue" /\ C!Next /\ UNCHANGED <<moves, vars, rowVars>>
    \/ moves = "joins"     /\ J!Next /\ UNCHANGED <<moves, vars, itemVars>>

MCSpec == MCInit /\ [][MCNext]_allVars

Symmetry == Permutations(Request)

-----------------------------------------------------------------------------
\* Properties of Catalogue: conflicts of names are answered to those who lost one,
\* and only an update that was overtaken brings back what was removed.
NameConflictsAreReal   == C!TypeOK /\ C!NameConflictsAreReal
OnlyStaleUpdatesRevive == C!OnlyStaleUpdatesRevive

\* Properties of JoinRows: nothing of the old set survives a replacement, and
\* one that runs alone leaves exactly its own.
ReplacementsLeaveTheirOwn ==
    []J!TypeOK /\ J!OldRowsAreReplaced /\ J!ReplacesWhenAlone
=============================================================================
