\* Ends with a counterexample.  The others of section 6 of the README on this
\* module are had with another property in the last line and, where it says so,
\* other constants:
\*   ReaderHasPriv
\*   Released, PrivOutlivesUsers: MayFail = {"client"}
\*   OneInstance: Threads = {t1, t2}, Quiet = TRUE
SPECIFICATION Spec
CONSTANTS
  Threads = {t1}
  Privs = {p1, p2}
  MayFail = {}
  Quiet = FALSE
  None = None
INVARIANTS FlushedBeforeFree
