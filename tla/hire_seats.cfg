SPECIFICATION RecruitmentSpec
CONSTANTS
  Requests = {h1, h2}
  Candidates = {c1, c2}
  Slots = {1}
  Terms = {offer}
  NoTerms = NoTerms
  MaxSeats = 1
SYMMETRY RecruiterSymmetry
CHECK_DEADLOCK FALSE
INVARIANTS SeatsSuffice
