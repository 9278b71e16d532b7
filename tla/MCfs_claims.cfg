\* Claims that do not hold (README, section 7): check one at a time, with the
\* constants given beside it.
SPECIFICATION Spec
CONSTANTS
    Clients = {c1}
    MaxConnects = 1
    MaxPublish = 0
    Events = {}
INVARIANT ConnectSucceeds
\* PROPERTY BackupStopsServer   with SPECIFICATION FairSpec, MaxPublish = 1
