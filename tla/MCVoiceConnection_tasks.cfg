SPECIFICATION FairSpec
CONSTANT EventCap = 3
INVARIANTS TypeOK AudioReady SenderIsSomewhere
PROPERTIES KeepsContract AbandonedIsReleased EndIsSeen
