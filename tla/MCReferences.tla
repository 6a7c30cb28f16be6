---------------------------- MODULE MCReferences ----------------------------
(* A drawing and two files it may refer to, directly or through each other. *)
EXTENDS References

CONSTANTS root, A, B, none

Reference(file, index, target) ==
  [parent |-> file, index |-> index, target |-> target, enabled |-> TRUE, overlay |-> FALSE]
Unloaded(ref) == [ref EXCEPT !.enabled = FALSE]
Overlay(ref)  == [ref EXCEPT !.overlay = TRUE]

Tree(ofRoot, ofA, ofB) ==
  [file \in Files |-> CASE file = root -> ofRoot [] file = A -> ofA [] file = B -> ofB]

\* Both files refer to one another, and the drawing to both.
Shared ==
  Tree(<<Reference(root, 1, A), Reference(root, 2, B)>>,
       <<Reference(A, 1, B)>>, <<Reference(B, 1, A)>>)
\* The drawing refers to one file twice, which refers to the drawing and to the other.
Chain ==
  Tree(<<Reference(root, 1, A), Reference(root, 2, A)>>,
       <<Reference(A, 1, B), Reference(A, 2, root)>>, <<Reference(B, 1, root)>>)
\* An overlay brings no references of its own.
Overlaid ==
  Tree(<<Overlay(Reference(root, 1, A)), Reference(root, 2, B)>>,
       <<Reference(A, 1, B)>>, <<>>)
\* A file that is an overlay and attached, with a reference that is not loaded.
Mixed ==
  Tree(<<Overlay(Reference(root, 1, A)), Reference(root, 2, A)>>,
       <<Unloaded(Reference(A, 1, B))>>, <<>>)
\* One reference is not found, the other not loaded.
Saved  == Tree(<<Reference(root, 1, none), Unloaded(Reference(root, 2, A))>>, <<>>, <<>>)
Single == Tree(<<Reference(root, 1, A)>>, <<Reference(A, 1, B)>>, <<>>)


Plain(tree)  == [references |-> tree, clicks |-> 0, hides |-> 0, slow |-> FALSE, faults |-> FALSE]
Faulty(tree) == [Plain(tree) EXCEPT !.faults = TRUE]

MCDrawings ==
  {Faulty(Shared), Faulty(Chain), Faulty(Overlaid),
   \* The user links, or loads, a reference.
   [Faulty(Mixed) EXCEPT !.clicks = 1],
   [Faulty(Saved) EXCEPT !.clicks = 1], [Plain(Saved) EXCEPT !.clicks = 2],
   [Faulty(Single) EXCEPT !.clicks = 1],
   \* The editor is hidden and shown again.
   [Plain(Single) EXCEPT !.hides = 1], [Plain(Chain) EXCEPT !.hides = 1],
   \* A mounting may take longer than the timer.
   [Plain(Single) EXCEPT !.slow = TRUE], [Plain(Shared) EXCEPT !.slow = TRUE]}
=============================================================================
