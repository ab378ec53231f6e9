------------------------------ MODULE HrLetters -------------------------------
(***************************************************************************)
(* HR letters (hrLetters.service.js): a draft on a template, issued with a *)
(* signed public link, revoked, corrected and issued again.                *)
(*                                                                         *)
(* Issuing locks the letter's row; revoking and reverting are conditional  *)
(* updates; creating and deleting read first and write without a lock.     *)
(***************************************************************************)
EXTENDS Server, Naturals

CONSTANTS
  MaxLetters,     \* bound: letters ever created (their ids)
  QrTokens,       \* random tokens
  Bodies,         \* texts of the template
  NoBody          \* SQL NULL

ASSUME HrLettersAssumption == MaxLetters \in Nat \ {0} /\ NoBody \notin Bodies

VARIABLES
  template,       \* letter_templates: the text, or NoBody once deleted
  letter,         \* hr_letters by id
  minted          \* history: tokens handed out, with what they attested

letterVars == <<template, letter, minted>>

Ids == 1 .. MaxLetters

LetterRows == [status   : {"new", "draft", "issued", "revoked", "deleted"},
               ref      : Nat,
               snapshot : Bodies \union {NoBody},
               qr       : SUBSET QrTokens]

NewLetter == [status |-> "new", ref |-> 0, snapshot |-> NoBody, qr |-> {}]

LetterRequests ==
  [kind : {"draftLetter"}, ref : Nat]
    \union [kind : {"issueLetter"}, letter : Ids, body : Bodies]
    \union [kind : {"deleteLetter"}, letter : Ids]

HrLettersTypeOK ==
  /\ template \in Bodies \union {NoBody}
  /\ letter \in [Ids -> LetterRows]
  /\ minted \in [QrTokens -> [attests : {"nothing", "live", "over"}, body : Bodies \union {NoBody}]]
  /\ request \in [Requests -> {Idle} \union LetterRequests]

HrLettersInit ==
  /\ template \in Bodies
  /\ letter = [i \in Ids |-> NewLetter]
  /\ minted = [q \in QrTokens |-> [attests |-> "nothing", body |-> NoBody]]

----------------------------------------------------------------------------
Stored(i) == letter[i].status \notin {"new", "deleted"}

UpdateTemplate(b) ==
  /\ template # NoBody
  /\ template' = b
  /\ UNCHANGED <<letter, minted, request>>

DeleteTemplate ==
  /\ template # NoBody
  /\ template' = NoBody
  /\ UNCHANGED <<letter, minted, request>>

Newest(i) == Stored(i) /\ \A j \in Ids : j > i => ~Stored(j)

\* buildReferenceNumber: one more than the reference of the newest letter.
NextReference(ref) ==
  \/ (\A i \in Ids : ~Stored(i)) /\ ref = 1
  \/ \E i \in Ids : Newest(i) /\ ref = letter[i].ref + 1

CreateDraftRead(h) ==
  /\ \E ref \in 1 .. MaxLetters + 1 :
       NextReference(ref) /\ Begin(h, [kind |-> "draftLetter", ref |-> ref])
  /\ UNCHANGED letterVars

\* The INSERT, or the 409 of uk_hr_letters_reference.
CreateDraftInsert(h, i) ==
  /\ Doing(h, "draftLetter")
  /\ \A j \in Ids : letter[j].status = "new" <=> j >= i
  /\ LET ref == request[h].ref
     IN letter' = IF \E j \in Ids : Stored(j) /\ letter[j].ref = ref THEN letter
                  ELSE [letter EXCEPT ![i] = [NewLetter EXCEPT !.status = "draft", !.ref = ref]]
  /\ End(h)
  /\ UNCHANGED <<template, minted>>

----------------------------------------------------------------------------
\* Mutant: SELECT without FOR UPDATE.
LetterUnlockedAlways(i) == TRUE

\* No issue in progress holds the row.
LetterUnlocked(i) == \A g \in Requests : Doing(g, "issueLetter") => request[g].letter # i

Over(q) == [minted EXCEPT ![q].attests = "over"]

\* The token of a letter, if it has one, attests nothing any more.
Withdraw(i) == IF letter[i].qr = {} THEN minted ELSE Over(CHOOSE q \in letter[i].qr : TRUE)

IssueRead(h, i) ==
  /\ LetterUnlocked(i)
  /\ letter[i].status = "draft"
  /\ template # NoBody
  /\ Begin(h, [kind |-> "issueLetter", letter |-> i, body |-> template])
  /\ UNCHANGED letterVars

\* Text, token and signature are frozen in the row; the link is handed out.
IssueCommit(h, q) ==
  /\ Doing(h, "issueLetter")
  /\ minted[q].attests = "nothing"
  /\ LET r == request[h]
     IN IF Stored(r.letter)
        THEN /\ letter' = [letter EXCEPT ![r.letter].status = "issued",
                                         ![r.letter].snapshot = r.body,
                                         ![r.letter].qr = {q}]
             /\ minted' = [minted EXCEPT ![q] = [attests |-> "live", body |-> r.body]]
        ELSE UNCHANGED <<letter, minted>>
  /\ End(h)
  /\ UNCHANGED template

\* UPDATE ... WHERE status='issued'
RevokeLetter(i) ==
  /\ LetterUnlocked(i)
  /\ letter[i].status = "issued"
  /\ letter' = [letter EXCEPT ![i].status = "revoked", ![i].qr = {}]
  /\ minted' = Withdraw(i)
  /\ UNCHANGED <<template, request>>

\* UPDATE ... WHERE status='revoked'
RevertLetter(i) ==
  /\ LetterUnlocked(i)
  /\ letter[i].status = "revoked"
  /\ letter' = [letter EXCEPT ![i].status = "draft", ![i].qr = {}, ![i].snapshot = NoBody]
  /\ UNCHANGED <<template, minted, request>>

DeleteLetterRead(h, i) ==
  /\ Stored(i) /\ letter[i].status # "issued"
  /\ Begin(h, [kind |-> "deleteLetter", letter |-> i])
  /\ UNCHANGED letterVars

\* DELETE ... WHERE uuid=?, whatever the letter has become
DeleteLetterWrite(h) ==
  /\ Doing(h, "deleteLetter")
  /\ LET i == request[h].letter
     IN /\ LetterUnlocked(i)
        /\ letter' = [letter EXCEPT ![i] = [NewLetter EXCEPT !.status = "deleted"]]
        /\ minted' = Withdraw(i)
  /\ End(h)
  /\ UNCHANGED template

\* verifyLetterPublic: the token is found on an issued letter.
Verifies(q) == \E i \in Ids : letter[i].status = "issued" /\ q \in letter[i].qr

HrLettersNext ==
  \/ \E b \in Bodies : UpdateTemplate(b)
  \/ DeleteTemplate
  \/ \E i \in Ids : RevokeLetter(i) \/ RevertLetter(i)
  \/ \E h \in Requests :
       \/ CreateDraftRead(h)
       \/ \E i \in Ids : CreateDraftInsert(h, i) \/ IssueRead(h, i) \/ DeleteLetterRead(h, i)
       \/ \E q \in QrTokens : IssueCommit(h, q)
       \/ DeleteLetterWrite(h)
       \/ Abandon(h) /\ UNCHANGED letterVars

HrLettersSpec ==
  ServerInit /\ HrLettersInit /\ [][HrLettersNext]_<<request, letterVars>>

----------------------------------------------------------------------------
\* A link that was handed out verifies until its letter is revoked or deleted,
\* and never again afterwards, whatever is reverted, edited and issued anew;
\* and the letter behind it carries the text that was signed off.
LinksMeanWhatTheySay ==
  \A q \in QrTokens :
    /\ Verifies(q) <=> minted[q].attests = "live"
    /\ Verifies(q) => \E i \in Ids : q \in letter[i].qr /\ letter[i].snapshot = minted[q].body
============================================================================
