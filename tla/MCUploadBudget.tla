--------------------------- MODULE MCUploadBudget ---------------------------
(* Small instances of UploadBudget for TLC. *)
EXTENDS UploadBudget, Functions

CONSTANTS u1, u2, u3

ThreeUploads == {u1, u2, u3}

\* Size adds up what each upload of the set asks for.
ASSUME SizeIsTheSum ==
  \A want \in [ThreeUploads -> 0 .. 3], S \in SUBSET ThreeUploads :
    Size(want, S) = SumFunctionOnSet(want, S)
=============================================================================
