--------------------------- MODULE MCPagedRequests ---------------------------
(* Instances of PagedRequests for TLC. *)
EXTENDS PagedRequests, TLC

CONSTANTS x1, x2, x3, w, plain, chosen

Symmetry == Permutations({x1, x2, x3})

\* Bound: the settings change after the first request only while the
\* application waits for each request to be sent.
ChangesWhenAwaited == late => ~raced
==============================================================================
