----------------------------- MODULE MCSshStore -----------------------------
(* SshStore for TLC, with a check of the one algorithm of FileStore.          *)
EXTENDS SshStore

\* The search finds the length of every list of up to 70 files: of lists that
\* are just shorter, as long as and just longer than each power of two.
ASSUME LengthIsFound == \A n \in 0 .. 70 : AsList!DetermineLen(0 .. n - 1) = n
=============================================================================
