---------------------------- MODULE MCSaveMirror ----------------------------
(* Instances of SaveMirror for TLC: how often each event may happen. *)
EXTENDS SaveMirror, TLC

\* Bounds given as <<event, times>>; an event that is not listed never happens.
Limits(pairs) ==
    [e \in Events |-> IF \E p \in pairs : p[1] = e
                      THEN (CHOOSE p \in pairs : p[1] = e)[2] ELSE 0]

\* Saves against another writer with lost and late uploads; a crash at any step
\* and the recovery scan after it; lost local files and damaged snapshots.
WriteBudgets ==
    {Limits({<<"edit", 2>>, <<"external", 1>>, <<"loss", 2>>}),
     Limits({<<"edit", 1>>, <<"loss", 1>>, <<"crash", 1>>, <<"recover", 1>>}),
     Limits({<<"edit", 2>>, <<"loss", 1>>, <<"open", 1>>, <<"delete", 1>>, <<"damage", 1>>})}

\* Against an edit and another writer: hydration, prefetch, scan and opens;
\* validation and refresh; conflict resolution with another edit.
ReadBudgets ==
    {Limits({<<"edit", 1>>, <<"external", 1>>, <<"hydrate", 1>>, <<"open", 1>>, <<"scan", 1>>}),
     Limits({<<"edit", 1>>, <<"external", 1>>, <<"validate", 2>>}),
     Limits({<<"edit", 2>>, <<"external", 1>>, <<"accept", 1>>})}

\* One writer, one lost upload: nothing else can go wrong.
AloneBudgets == {Limits({<<"edit", 2>>, <<"loss", 1>>})}
\* One edit against one background hydration.
PrefetchBudgets == {Limits({<<"edit", 1>>, <<"hydrate", 1>>})}
\* A new save against conflict resolution.
ResolveBudgets == {Limits({<<"edit", 2>>, <<"external", 1>>, <<"accept", 1>>})}
\* A conflict, a lost upload and a save after it.
RebaseBudgets == {Limits({<<"edit", 3>>, <<"loss", 1>>})}
=============================================================================
