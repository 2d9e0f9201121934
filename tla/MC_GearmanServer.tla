-------------------------- MODULE MC_GearmanServer --------------------------
(***************************************************************************)
(* Model-checking instances of GearmanServer: the byte strings clients may *)
(* send.  Byte 97 is 'a', byte 45 is '-'.                                  *)
(***************************************************************************)
EXTENDS GearmanServer, TLC

\* No unique, and a short unique.
MCUniques == {<<>>, <<97>>}

\* Short uniques only, none shared by unrelated jobs.
MCNamedUniques == {<<97>>, <<97, 97>>}

MCData == {<<97>>}

\* Unique "aa" (truncated to "a" when UniqueSize = 2) and no unique.
MCLongUniques == {<<97, 97>>}

\* No unique and unique "-", with and without a workload.
MCDashUniques == {<<>>, <<45>>}

MCDashData == {<<>>, <<97>>, <<97, 97>>}

MCSymmetry == Permutations(Workers) \cup Permutations(Clients)
                \cup Permutations(JobSlot)
=============================================================================
