-------------------------- MODULE MCEditorSession --------------------------
(***************************************************************************)
(* The editors TLC opens.                                                  *)
(***************************************************************************)
EXTENDS EditorSession

\* Retries and cancellations of a drawing without a reference.
Retries ==
    [starts: {MaxStarts}, progressive: BOOLEAN, persistent: BOOLEAN,
     xrefs: {FALSE}, cancels: {TRUE}, hides: {FALSE}]

\* A reference, with one start and with two, in an editor that may be hidden.
WithReference ==
    [starts: {1}, progressive: {TRUE}, persistent: BOOLEAN,
     xrefs: {TRUE}, cancels: {TRUE}, hides: {FALSE}]
    \cup [starts: {2}, progressive: {TRUE}, persistent: BOOLEAN,
          xrefs: {TRUE}, cancels: {TRUE}, hides: BOOLEAN]

Editors == Retries \cup WithReference

\* Retries while the cache of a reference is prepared.
EarlierReferences ==
    [starts: {MaxStarts}, progressive: {FALSE}, persistent: {FALSE},
     xrefs: {TRUE}, cancels: {FALSE}, hides: {FALSE}]
=============================================================================
