--------------------------- MODULE MCAsyncSession ---------------------------
(* A small instance of AsyncSession: two topics, one more asked for later.   *)
EXTENDS AsyncSession

CONSTANTS req, resp, extra
=============================================================================
