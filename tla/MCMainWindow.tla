---------------------------- MODULE MCMainWindow ----------------------------
(* Small instances of MainWindow: which images, partitions, folders
   and operations. *)
EXTENDS MainWindow

CONSTANTS A, B

OneImage  == {A}
TwoImages == {A, B}

OneNumber  == <<0>>
TwoNumbers == <<0, 1>>
AfterMeta  == <<1, 2>>   \* number 0 is the partition table itself, not listed

NoFolder  == {}
OneFolder == {"/d"}

Browsing   == {"Open", "Close", "Select"}
Mix        == {"Open", "Select", "Scan", "Row", "Analyze"}
Keeping    == {"Open", "Select", "Scan", "Row", "Extract"}
Everything == AllOperations
=============================================================================
