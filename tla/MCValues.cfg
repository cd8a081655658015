INIT Init
NEXT Next

CONSTANTS
    None = None
    Junk = Junk
    Minutes = {480, 1200, 60}
    MaxEdits = 3
    MaxReads = 2
    MapIds = {0, 1}
    Toggles = {t1}
    MaxChanges = 2
    Home = 0
    Away = 1
    Tables <- TheTables
    MaxCommands = 4
    Poses <- ThePoses
    Areas = {0, 6, 12, 65546}
    TotalArea = 70000
    MaxFrames = 4
    Places = {0, 3}
    MaxTime = 5
    MaxPushes = 3
    Lawns = {0, 1}
    CloudScans <- TheScans
    Caps = {0, 2}
    MaxJobs = 2
    Malformed = Malformed
    Drafts <- TheDrafts
    MaxRevisions = 4
    AppTexts <- TheTexts
    CardPlans <- ThePlans
    Letters = {"Spr", "Sum", Amp, Escaped}
    Amp = Amp
    Escaped = Escaped
    Calls <- TheCalls
    ChunkRecords = 4
    MaxSaves = 3

INVARIANTS
    TargetsAreOnMap
    TimesAreTold
    LegsAddUp
    RowsHaveFiles
    MapIsTrue

PROPERTIES
    OtherPartsKept
    ReadsAreTrue
    
    ReadingsAreMowers
    
    PlanEditsLand
CHECK_DEADLOCK FALSE
