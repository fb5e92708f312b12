----------------------------- MODULE MCChatState -----------------------------
(* Small instances of ChatState for TLC. *)
EXTENDS ChatState

CONSTANTS c1, c2

\* A new session.
Fresh == <<>>
\* Without a system head; a call answered twice, once by the repair, and one never
\* answered; then a result whose assistant line was lost to a failed write.
Legacy == <<User(0), Assistant(<<c1, c2>>), Result(c1, "synthetic"), Result(c1, "plain"),
            Reminder, Result(c2, "plain")>>

NoneOrBoth == {{}, {c1, c2}}

AllHistories == {Fresh, Legacy}
NewSession   == {Fresh}
=============================================================================
