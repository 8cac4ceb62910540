SPECIFICATION Spec
CONSTANTS
    e1 = e1  e2 = e2  one = one  both = both  d1 = d1  d2 = d2
    place1 = place1  place2 = place2  place12 = place12  auto = auto  client = client
    Episodes = {e1, e2}
    Files = {one, both}
    Folders = {d1, d2}
    Places = {place1, place2, place12}
    Processors = {auto, client}
    Of <- MCOf
    First <- MCFirst
    Quality <- MCQuality
    Size <- MCSize
    Folder <- MCFolder
    Snatched = {}
    Named <- MCNamed
    Path <- MCPath
    NoPlace = NoPlace  NoFile = NoFile  NoRow = NoRow  Broken = Broken
    Calls <- MCCalls
    Asked = {}  MaxTrouble = 1  MaxRefresh = 0
INVARIANTS DownloadedHasFile
PROPERTIES LastFileStays
