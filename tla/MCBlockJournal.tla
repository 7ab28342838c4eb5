--------------------------- MODULE MCBlockJournal ---------------------------
(* The instance of BlockJournal TLC checks: the three sectors the programs  *)
(* name, the contents they write or look for, and indices that wrap often.  *)
EXTENDS BlockJournal

MCSector == {0, 1, 3}
MCData == {"zero", "PREPARE1", "COMMIT01", "APPLIED1", "ROLLBK01", "OLDVAL01",
           "NEWVAL01", "READOK01", "FIXTURE"}
=============================================================================
