---------------------------- MODULE MCSpectrumPath ----------------------------
(***************************************************************************)
(* SpectrumPath on small instances: one writer, of the last file, and two  *)
(* requests, of which each leaves something to the other's settings.       *)
(***************************************************************************)
EXTENDS SpectrumPath

CONSTANT w1

MCFileNum == [w \in Writers |-> NFiles - 1]

Described(file, to) == [field |-> "description", file |-> file, to |-> to]
Named(file, to) == [field |-> "filename", file |-> file, to |-> to]
Values(to) == [field |-> "values", to |-> to]
Duration(to) == [field |-> "duration", to |-> to]

MCRequests ==
    <<<<Named(0, 1), Described(NFiles - 1, 2), Values(1), Duration(1)>>,
      <<Named(NFiles - 1, 2), Duration(2)>>>>

=============================================================================
