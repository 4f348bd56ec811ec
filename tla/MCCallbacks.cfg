SPECIFICATION MCSpec
CONSTANTS
    Kinds = {"oss", "cos", "s3", "qiniu", "upyun", "onedrive", "remote"}
    Size = 2
    Sizes = {2, 3, 4}
    Tolerance = 1
    Capacity = 3
    Deliveries = {d1, d2}
    MaxFaults = 1
    MaxDeletions = 1
    Pictures = {pic1}
    Makers = {g1, g2}
    ThumbWorkers = 1
    Mails = {m1, m2, m3}
    MailCap = 1
    MaxClients = 2
INVARIANT PromotedIsUploaded
 
INVARIANT ThumbInv
PROPERTY PlaceholderResolved
PROPERTY MonitorEnds
PROPERTY MakerEnds
PROPERTY MailsHandled
CHECK_DEADLOCK FALSE
