CONSTANTS
    Devices = {d1, d2}
    Serials = {1, 2}
    Keys = {k1, k2}
    AttachmentCount = 2
    PartCount = 2
    None = None
SPECIFICATION RecoveringSpec
INVARIANT CheckpointBehindServer
INVARIANT ApprovedContentOnly
INVARIANT OperationKeepsDevice
INVARIANT SubmittedIsAccountedFor
PROPERTY ReportedBeforeForgotten
 
