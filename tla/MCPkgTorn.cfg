CONSTANTS
    Manifests <- MCManifests
    PathManifest <- MCPathManifest
    GitManifest <- MCGitManifest
    Published <- MCPublished
    Uploads <- MCUploads
    Regs = {1}
    MaxCmds = 3
    MaxEnv = 1
SPECIFICATION Spec
INVARIANT LockIsTruth
CHECK_DEADLOCK FALSE
