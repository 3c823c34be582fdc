------------------------------ MODULE MCStaff -------------------------------
(* A company of a few employees, with two creations in flight, two plans and *)
(* two payroll cycles.                                                     *)
EXTENDS Staff, TLC

CONSTANTS h1, h2, e1, e2, e3, u1, u2, u3, c1, c2

\* Whole, late, with overtime, without a check-out, and not worked.
SomeDays ==
    [status : {"PRESENT"}, worked : {8}, late : {0, 7}, over : {0}] \cup
    {[status |-> "PRESENT", worked |-> 10, late |-> 0, over |-> 2],
     [status |-> "PRESENT", worked |-> 0, late |-> 7, over |-> 0],
     [status |-> "ABSENT", worked |-> 0, late |-> 0, over |-> 0],
     [status |-> "LEAVE", worked |-> 0, late |-> 0, over |-> 0],
     [status |-> "NONE", worked |-> 0, late |-> 0, over |-> 0]}
SomeContracts ==
    [basis : {"MONTHLY"}, basic : {101}, gosi : BOOLEAN] \cup
    [basis : {"DAILY", "HOURLY"}, basic : {13}, gosi : BOOLEAN]
Asked(d, h) == [day |-> d, hours |-> h]
SomeGrants == {<<>>, <<Asked(1, 1)>>, <<Asked(2, 3), Asked(1, 1)>>, <<Asked(1, 3), Asked(1, 1)>>}
SomeParts ==
    {<<>>, <<[type |-> "ALLOWANCE", amount |-> 10, percent |-> TRUE],
             [type |-> "DEDUCTION", amount |-> 5, percent |-> TRUE],
             [type |-> "ALLOWANCE", amount |-> 3, percent |-> FALSE]>>}
SomePolicies ==
    [late : {"PER_MINUTE", "FIXED_AMOUNT"}, unexcused : {2}, excused : {0, 1, 3},
     normal : {3}, holiday : {4}, gosiPercent : {10}]

Symmetry == Permutations(Callers) \cup Permutations(Employees)
AdminSymmetry == Symmetry \cup Permutations(Users) \cup Permutations(PageCycles)
=============================================================================
