----------------------------- MODULE MCAsyncFetch -----------------------------
(* A ring of three slots (it holds two) so that it fills and wraps. *)
EXTENDS AsyncFetch

SomeStatuses == {{}, {"OBJECT_CHANGE"}, {"CLIENT_CHANGE", "CLIENT_CMD"}}
=============================================================================
