-------------------------------- MODULE MCDesks --------------------------------
(* The desks side by side: one instance of each, and a run begins at one of   *)
(* them.  They share no table, so each has the whole server to itself.        *)
EXTENDS Offboarding, Approvals, Recruitment, Verification, RequestQuota, Sessions,
        Accounts, HrLetters, Leave, CustomPlan, Attendance, Support, DocumentCatalogue,
        SalaryHistory, TLC

CONSTANTS Rows, Things    \* the interchangeable values of the desks, two sets at most at each

VARIABLE desk     \* where this run takes place

deskVars == <<request, custodyVars, exitVars, approvalVars, recruitmentVars, verificationVars,
              quotaVars, sessionVars, accountVars, letterVars, leaveVars, customPlanVars,
              attendanceVars, supportVars, catalogueVars, salaryVars>>

Desks == {"exits", "approvals", "recruitment", "verification", "quota", "sessions", "accounts",
          "letters", "leave", "customPlans", "attendance", "support", "documentTypes",
          "salaries"}

MCChain == <<"sub_admin", "org_admin">>

DeskSymmetry == Permutations(Requests) \union Permutations(Rows) \union Permutations(Things)

Init ==
  /\ desk \in Desks
  /\ ServerInit
  /\ AssetsInit /\ OffboardingInit /\ ApprovalsInit /\ RecruitmentInit /\ VerificationInit
  /\ RequestQuotaInit /\ SessionsInit /\ AccountsInit /\ HrLettersInit /\ LeaveInit
  /\ CustomPlanInit /\ AttendanceInit /\ SupportInit /\ CatalogueInit /\ SalaryInit
  /\ desk # "sessions" => who = CHOOSE i \in Identities : TRUE
  /\ desk # "salaries" => opened = 0
  /\ desk # "letters" => template = CHOOSE b \in Bodies : TRUE

\* The tables of a desk stay as they are, unless the run takes place there.
Still(d, vars) == IF desk = d THEN TRUE ELSE UNCHANGED vars

Elsewhere ==
  /\ UNCHANGED desk
  /\ Still("exits",         <<custodyVars, exitVars>>)
  /\ Still("approvals",     approvalVars)
  /\ Still("recruitment",   recruitmentVars)
  /\ Still("verification",  verificationVars)
  /\ Still("quota",         quotaVars)
  /\ Still("sessions",      sessionVars)
  /\ Still("accounts",      accountVars)
  /\ Still("letters",       letterVars)
  /\ Still("leave",         leaveVars)
  /\ Still("customPlans",   customPlanVars)
  /\ Still("attendance",    attendanceVars)
  /\ Still("support",       supportVars)
  /\ Still("documentTypes", catalogueVars)
  /\ Still("salaries",      salaryVars)

Next ==
  \/ desk = "exits"         /\ Elsewhere /\ OffboardingNext
  \/ desk = "approvals"     /\ Elsewhere /\ ApprovalsNext
  \/ desk = "recruitment"   /\ Elsewhere /\ RecruitmentNext
  \/ desk = "verification"  /\ Elsewhere /\ VerificationNext
  \/ desk = "quota"         /\ Elsewhere /\ RequestQuotaNext
  \/ desk = "sessions"      /\ Elsewhere /\ SessionsNext
  \/ desk = "accounts"      /\ Elsewhere /\ AccountsNext
  \/ desk = "letters"       /\ Elsewhere /\ HrLettersNext
  \/ desk = "leave"         /\ Elsewhere /\ LeaveNext
  \/ desk = "customPlans"   /\ Elsewhere /\ CustomPlanNext
  \/ desk = "attendance"    /\ Elsewhere /\ AttendanceNext
  \/ desk = "support"       /\ Elsewhere /\ SupportNext
  \/ desk = "documentTypes" /\ Elsewhere /\ CatalogueNext
  \/ desk = "salaries"      /\ Elsewhere /\ SalaryNext

Spec == Init /\ [][Next]_<<desk, deskVars>>

\* The type invariants of all modules (they differ in what request may hold).
DesksTypeOK ==
  /\ desk = "exits"         => OffboardingTypeOK
  /\ desk = "approvals"     => ApprovalsTypeOK
  /\ desk = "recruitment"   => RecruitmentTypeOK
  /\ desk = "verification"  => VerificationTypeOK
  /\ desk = "quota"         => RequestQuotaTypeOK
  /\ desk = "sessions"      => SessionsTypeOK
  /\ desk = "accounts"      => AccountsTypeOK
  /\ desk = "letters"       => HrLettersTypeOK
  /\ desk = "leave"         => LeaveTypeOK
  /\ desk = "customPlans"   => CustomPlanTypeOK
  /\ desk = "attendance"    => AttendanceTypeOK
  /\ desk = "support"       => SupportTypeOK
  /\ desk = "documentTypes" => CatalogueTypeOK
  /\ desk = "salaries"      => SalaryTypeOK
============================================================================
