CONSTANTS
  Workers = {w1, w2}
  Msgs = {m1}
  MaxDeliver = 2
  Outcomes = {"success", "fail", "die", "interrupt"}
  Verbs = {"ack", "nak", "term", "working", "confirm"}
  NakDelay = FALSE
  NoDelivery = NoDelivery
SYMMETRY Symmetry
SPECIFICATION Spec
INVARIANTS TypeOK AckedOnlyIfAccepted TermedOnlyIfRefused AnswersWarranted AnsweredOnce ConfirmedIsSettled
PROPERTIES PolicyAlwaysAnswers NoRedeliveryAfterConfirm KeepsPromise
