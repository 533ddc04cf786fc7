------------------------------ MODULE OpenPath ------------------------------
(***************************************************************************)
(* Fat with FAT_Open given its path as a text, which Path takes apart.      *)
(***************************************************************************)
EXTENDS Fat, Path

CONSTANTS
    Given,     \* texts clients open, each with what FAT_Open's buffer held
    NameOf(_)  \* the member of Names that a short name stands for

VARIABLE given  \* what the running FAT_Open was given, else Nothing

Nothing == <<<<>>, NUL>>

openVars == <<vars, given>>

NamesOf(keys) == [i \in DOMAIN keys |-> NameOf(keys[i])]

\* The texts end where strings end, and the buffer holds them.
ASSUME OpenPathAssumption ==
    \A g \in Given : /\ g[1] \in Seq(Nat \ {NUL}) /\ Len(g[1]) + 2 <= MAX_PATH_SIZE
                     /\ g[2] \in Nat
                     /\ NamesOf(Walked(g[1], g[2])) \in Seq(Names)

OpenText(g) ==
    LET names == NamesOf(Walked(g[1], g[2]))
    IN  /\ IF names = <<>> THEN OpenRoot ELSE Open(names)
        /\ given' = IF names = <<>> THEN Nothing ELSE g

OpenInit == Init /\ given = Nothing

OpenNext ==
    \/ \E g \in Given : OpenText(g)
    \/ Next /\ given' = IF pc' = "idle" THEN Nothing ELSE given

OpenSpec == OpenInit /\ [][OpenNext]_openVars /\ WF_vars(Work)
-----------------------------------------------------------------------------
\* FAT_Open looks for the short names that the components of its path mean, in
\* capitals or not, with an extension or without (fat.c:387-405, 461-484).
\* Excepted is a last component with room for the byte that its late terminator
\* leaves behind it.
PathIsMeant ==
    LET names == Components(given[1])
    IN  /\ given # Nothing /\ Firm(given[1], given[2])
        /\ \A i \in DOMAIN names : Plain(names[i])
        => path = NamesOf([i \in DOMAIN names |-> Meant(names[i])])
=============================================================================
