----------------------------- MODULE MCRecruitment -----------------------------
(* Recruiters who hire for one opening. *)
EXTENDS Recruitment, TLC

\* Two requests of the same kind are interchangeable, and so are candidates.
RecruiterSymmetry == Permutations(Requests) \union Permutations(Candidates)
============================================================================
