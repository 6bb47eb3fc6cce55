---------------------------- MODULE MCSaveReplay ----------------------------
(* Instances of SaveReplay for TLC. *)
EXTENDS SaveReplay, MCSaveMirror

\* Two saves with another writer and a lost request; two saves, one of whose
\* snapshots is damaged; a save and a crash.
ReplayBudgets ==
    {Limits({<<"edit", 2>>, <<"external", 1>>, <<"loss", 1>>}),
     Limits({<<"edit", 2>>, <<"damage", 1>>, <<"loss", 1>>}),
     Limits({<<"edit", 1>>, <<"crash", 1>>})}
=============================================================================
