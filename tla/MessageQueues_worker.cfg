\* One notice, and two mails of which a round takes one; the worker and one request, one trouble.
SPECIFICATION FairSpec
CONSTANTS
  Notices = {1}
  Mails = {2, 3}
  First = first
  Timer = timer
  Requests = {q1}
  MaxAttempts = 2
  BatchSize = 1
  MaxTroubles = 1
INVARIANTS TypeOK MailSentOnce NoticeCounted MailNotBurnt
PROPERTIES RowsLeaveQueue
CHECK_DEADLOCK FALSE
